---- MODULE Spec2Model ----
(***************************************************************************)
(* FolderCrypto: password-based authenticated encryption of directory      *)
(* trees (src/FolderCrypto/app).                                           *)
(*                                                                         *)
(* Byte strings are sequences of integers 0..255.  File contents are       *)
(* symbolic: a plaintext is a sequence of extents [src, off, len] (len     *)
(* bytes of the source file src starting at offset off), so that two       *)
(* contents are equal exactly when they are the same bytes for every       *)
(* choice of the source files' contents.  AES-GCM is symbolic: a sealed    *)
(* blob opens only under the key, nonce and associated data it was sealed  *)
(* with and only when all of its bytes are intact; the KDF is a symbolic   *)
(* injective function of (password, salt, algorithm).                      *)
(***************************************************************************)
EXTENDS Integers, Sequences, FiniteSets, TLC

\* ------------------------------------------------------------------------
\* Program constants
\* ------------------------------------------------------------------------
KEY_SIZE == 32
NONCE_SIZE == 12
TAG_SIZE == 16
CHUNK_SIZE == 65536
VERSION == 1
SALT_SIZE == 32
MIN_PASSWORD_LEN == 8

\* ".encrypted" and ".folder_crypto_metadata.enc" / ".salt" as UTF-8 bytes.
ENCRYPTED_EXTENSION == <<46, 101, 110, 99, 114, 121, 112, 116, 101, 100>>
METADATA_FILENAME ==
    <<46, 102, 111, 108, 100, 101, 114, 95, 99, 114, 121, 112, 116, 111, 95, 109, 101, 116, 97, 100, 97, 116, 97, 46, 101, 110, 99>>
SALT_FILENAME == <<46, 115, 97, 108, 116>>
\* b"metadata"
METADATA_AD == <<109, 101, 116, 97, 100, 97, 116, 97>>

\* ------------------------------------------------------------------------
\* Bounds of the model
\* ------------------------------------------------------------------------
\* os.urandom(12) is drawn from the nonces whose byte 5 is 0..MaxNonceByte
\* and whose other bytes are 0.
MaxNonceByte == 1
\* bit positions an adversary flips inside one byte / integer field
MaxFlipBit == 1
\* largest number of chunks of a plaintext handed to encrypt_file alone
MaxChunks == 3
\* chunk indices given to _derive_chunk_nonce alone have bits 0..MaxIndexBit
MaxIndexBit == 29

\* ------------------------------------------------------------------------
\* Bytes and integers
\* ------------------------------------------------------------------------
Min(a, b) == IF a < b THEN a ELSE b

RECURSIVE Pow2(_)
Pow2(k) == IF k = 0 THEN 1 ELSE 2 * Pow2(k - 1)

\* a ^ b on naturals
RECURSIVE BitXor(_, _)
BitXor(a, b) ==
    IF a = 0 THEN b
    ELSE IF b = 0 THEN a
    ELSE (((a % 2) + (b % 2)) % 2) + 2 * BitXor(a \div 2, b \div 2)

\* struct.pack("<Q", n) for w = 8, struct.pack("<I", n) for w = 4
RECURSIVE LeBytes(_, _)
LeBytes(n, w) == IF w = 0 THEN <<>> ELSE <<n % 256>> \o LeBytes(n \div 256, w - 1)

PackQ(n) == LeBytes(n, 8)

\* a derivation that XORs the counter in big-endian
DeriveChunkNonceBigEndian(base_nonce, chunk_number) ==
    [j \in 1..Len(base_nonce) |->
        IF j > Len(base_nonce) - 8
        THEN BitXor(base_nonce[j], PackQ(chunk_number)[Len(base_nonce) + 1 - j])
        ELSE base_nonce[j]]

\* the derivation without the chunk counter
DeriveChunkNonceNoCounter(base_nonce, chunk_number) == base_nonce

\* CryptoEngine._derive_chunk_nonce: nonce[-(8-i)] ^= chunk_bytes[i], i in 0..7
DeriveChunkNonce(base_nonce, chunk_number) ==
    [j \in 1..Len(base_nonce) |->
        IF j > Len(base_nonce) - 8
        THEN BitXor(base_nonce[j], PackQ(chunk_number)[j - (Len(base_nonce) - 8)])
        ELSE base_nonce[j]]

\* chunk_ad = associated_data + struct.pack("<Q", chunk_number)
ChunkAd(associated_data, chunk_number) == associated_data \o PackQ(chunk_number)

\* os.urandom(NONCE_SIZE), within the bound
Nonces == {[j \in 1..NONCE_SIZE |-> IF j = 5 THEN v ELSE 0] : v \in 0..MaxNonceByte}

\* os.urandom(SALT_SIZE), within the bound
Salts == {[j \in 1..SALT_SIZE |-> IF j = 1 THEN v ELSE 0] : v \in {7}}

\* ------------------------------------------------------------------------
\* Paths.  A path is a sequence of components, a component a byte string.
\* ------------------------------------------------------------------------
\* the root of an absolute path is the component "/"; ".." is a component
\* like any other (pathlib does not resolve it)
RootPart == <<47>>
UpPart == <<46, 46>>

\* str(path): the components joined with "/" (47); str(Path()) is "."
RECURSIVE PathStr(_)
PathStr(p) ==
    IF Len(p) = 0 THEN <<46>>
    ELSE IF Len(p) = 1 THEN p[1]
    ELSE IF p[1] = RootPart THEN RootPart \o PathStr(Tail(p))
    ELSE p[1] \o <<47>> \o PathStr(Tail(p))

\* Path(s): split at "/", dropping empty and "." components
RECURSIVE SplitPath(_, _, _)
SplitPath(s, cur, acc) ==
    LET flushed == IF cur = <<>> \/ cur = <<46>> THEN acc ELSE Append(acc, cur)
    IN  IF s = <<>> THEN flushed
        ELSE IF Head(s) = 47 THEN SplitPath(Tail(s), <<>>, flushed)
        ELSE SplitPath(Tail(s), Append(cur, Head(s)), acc)

ParsePath(s) ==
    IF s # <<>> /\ Head(s) = 47 THEN <<RootPart>> \o SplitPath(s, <<>>, <<>>)
    ELSE SplitPath(s, <<>>, <<>>)

\* base / path: an absolute path replaces the base, so a path of the model
\* that starts with "/" or holds ".." names a place outside the directory
\* the file system function describes
InsideRoot(p) == \A i \in 1..Len(p) : p[i] # RootPart /\ p[i] # UpPart

\* "/" and "..", "../.." exist and are directories
IsAnchor(p) ==
    /\ Len(p) > 0
    /\ p = <<RootPart>> \/ \A i \in 1..Len(p) : p[i] = UpPart

\* str ordering: lexicographic on code points
RECURSIVE StrLess(_, _)
StrLess(a, b) ==
    IF b = <<>> THEN FALSE
    ELSE IF a = <<>> THEN TRUE
    ELSE IF Head(a) # Head(b) THEN Head(a) < Head(b)
    ELSE StrLess(Tail(a), Tail(b))

\* PurePath.__lt__: lexicographic on the list of components
RECURSIVE PathLess(_, _)
PathLess(p, q) ==
    IF q = <<>> THEN FALSE
    ELSE IF p = <<>> THEN TRUE
    ELSE IF Head(p) # Head(q) THEN StrLess(Head(p), Head(q))
    ELSE PathLess(Tail(p), Tail(q))

\* sorted(paths)
RECURSIVE SortPaths(_)
SortPaths(S) ==
    IF S = {} THEN <<>>
    ELSE LET m == CHOOSE x \in S : \A y \in S \ {x} : PathLess(x, y)
         IN  <<m>> \o SortPaths(S \ {m})

Prefix(p, k) == SubSeq(p, 1, k)
Parent(p) == Prefix(p, Len(p) - 1)

\* ------------------------------------------------------------------------
\* File systems.  A directory tree is a function from the paths that exist
\* (relative to its root, <<>> being the root itself) to nodes.
\* ------------------------------------------------------------------------
\* mode "umask" is the mode the process gives to what it creates
DirNode(mode) == [kind |-> "dir", mode |-> mode, data |-> <<>>]
FileNode(mode, data) == [kind |-> "file", mode |-> mode, data |-> data]
NoFs == << >>

Exists(fs, p) == p \in DOMAIN fs
IsDir(fs, p) == Exists(fs, p) /\ fs[p].kind = "dir"
IsFile(fs, p) == Exists(fs, p) /\ fs[p].kind = "file"
\* an open(path, "xb"-like) write that leaves an existing node as it is
PutUnlessPresent(fs, p, node) ==
    IF p \in DOMAIN fs THEN fs
    ELSE [q \in DOMAIN fs \cup {p} |-> IF q = p THEN node ELSE fs[q]]

Put(fs, p, node) == [q \in DOMAIN fs \cup {p} |-> IF q = p THEN node ELSE fs[q]]
Remove(fs, p) == [q \in DOMAIN fs \ {p} |-> fs[q]]

\* Path.mkdir(parents=True, exist_ok=True): raises when the path or one of
\* its ancestors exists and is not a directory; the ancestors above the
\* offending one have been created by then.
RECURSIVE MkdirFrom(_, _, _)
MkdirFrom(fs, p, k) ==
    IF k > Len(p) THEN [fs |-> fs, ok |-> TRUE]
    ELSE LET d == Prefix(p, k)
         IN  IF IsFile(fs, d) THEN [fs |-> fs, ok |-> FALSE]
             ELSE IF IsDir(fs, d) \/ IsAnchor(d) THEN MkdirFrom(fs, p, k + 1)
             ELSE MkdirFrom(Put(fs, d, DirNode("umask")), p, k + 1)

Mkdirs(fs, p) == MkdirFrom(fs, p, 0)

\* open(path, "wb") succeeds when the parent is a directory and the path is
\* not one
CanOpenForWrite(fs, p) ==
    /\ Len(p) > 0
    /\ IsDir(fs, Parent(p)) \/ IsAnchor(Parent(p))
    /\ ~IsDir(fs, p)
    /\ ~IsAnchor(p)

\* ------------------------------------------------------------------------
\* Errors: the exception class and the condition its message reports
\* ------------------------------------------------------------------------
Err(cls, why) == [cls |-> cls, why |-> why]
NoErr == Err("none", "none")

\* ------------------------------------------------------------------------
\* Plaintext contents
\* ------------------------------------------------------------------------
Extent(src, off, len) == [src |-> src, off |-> off, len |-> len]

\* the content of a whole source file of the given size
WholeFile(src, size) == IF size = 0 THEN <<>> ELSE <<Extent(src, 0, size)>>

RECURSIVE ByteLen(_)
ByteLen(data) == IF data = <<>> THEN 0 ELSE Head(data).len + ByteLen(Tail(data))

\* file.write(bytes) at the end of a content
WriteBytes(data, more) ==
    IF more = <<>> THEN data
    ELSE IF data = <<>> THEN more
    ELSE LET last == data[Len(data)]
             first == Head(more)
         IN  IF last.src = first.src /\ last.off + last.len = first.off
             THEN SubSeq(data, 1, Len(data) - 1)
                  \o <<Extent(last.src, last.off, last.len + first.len)>>
                  \o Tail(more)
             ELSE data \o more

\* ------------------------------------------------------------------------
\* Key derivation and AES-256-GCM (symbolic)
\* ------------------------------------------------------------------------
\* KeyDerivation.derive_key after its argument checks, PBKDF2 branch
DeriveKeyPbkdf2(password, salt) == [alg |-> "pbkdf2", pw |-> password, salt |-> salt]

\* AESGCM.encrypt(nonce, data, ad): ciphertext of len(data) bytes and a tag
Seal(key, nonce, pt, ptlen, ad) ==
    [key |-> key, nonce |-> nonce, ad |-> ad, pt |-> pt, ptlen |-> ptlen,
     cut |-> 0, intact |-> TRUE]

\* number of bytes of a blob that are present
BlobLen(blob) == blob.ptlen + TAG_SIZE - blob.cut

\* AESGCM.decrypt(nonce, blob, ad) returns the plaintext (does not raise InvalidTag)
AeadOpens(blob, key, nonce, ad) ==
    /\ blob.intact
    /\ blob.cut = 0
    /\ blob.key = key
    /\ blob.nonce = nonce
    /\ blob.ad = ad

\* ------------------------------------------------------------------------
\* CryptoEngine.encrypt_file / decrypt_file
\* An encrypted file: hdr = number of header bytes present (21 when whole),
\* the header fields, the chunk records (u32 length prefix, blob) and
\* tail = number of bytes of a trailing partial length prefix.
\* ------------------------------------------------------------------------
HeaderLen == 1 + NONCE_SIZE + 8

\* a read that returns one byte less than asked for
ReadChunkShort(size, off) == Min(CHUNK_SIZE - 1, size - off)

\* len(input_file.read(CHUNK_SIZE)) at offset off of a file of the given size
ReadChunk(size, off) == Min(CHUNK_SIZE, size - off)

RECURSIVE EncryptChunks(_, _, _, _, _, _, _)
EncryptChunks(src, size, off, chunk_number, key, nonce, associated_data) ==
    LET n == ReadChunk(size, off)
        blob == Seal(key, DeriveChunkNonce(nonce, chunk_number),
                     <<Extent(src, off, n)>>, n,
                     ChunkAd(associated_data, chunk_number))
    IN  IF n = 0 THEN <<>>
        ELSE <<[len |-> BlobLen(blob), blob |-> blob]>>
             \o EncryptChunks(src, size, off + n, chunk_number + 1, key, nonce,
                              associated_data)

EncryptFile(src, size, key, nonce, associated_data) ==
    [hdr |-> HeaderLen, version |-> VERSION, nonce |-> nonce, size |-> size,
     recs |-> EncryptChunks(src, size, 0, 0, key, nonce, associated_data),
     tail |-> 0]

RECURSIVE RecBytes(_, _)
RecBytes(recs, i) ==
    IF i > Len(recs) THEN 0 ELSE 4 + BlobLen(recs[i].blob) + RecBytes(recs, i + 1)

\* size in bytes of an encrypted file
CtSize(ct) == ct.hdr + RecBytes(ct.recs, 1) + ct.tail

\* decrypt_file without its final size check
TotalMatchesAlways(total_decrypted, expected_file_size) == TRUE

\* the check at the end of the record stream: total_decrypted == expected_file_size
TotalMatches(total_decrypted, expected_file_size) == total_decrypted = expected_file_size

\* a decrypt_file that takes every chunk read for a complete one
ChunkCompleteAlways(got, chunk_size) == TRUE

\* the check after input_file.read(chunk_size): len(encrypted_chunk) == chunk_size
ChunkComplete(got, chunk_size) == got = chunk_size

RECURSIVE DecryptChunks(_, _, _, _, _, _)
DecryptChunks(ct, i, key, associated_data, out, total_decrypted) ==
    LET fail(why) == [err |-> Err("DecryptionError", why), out |-> out,
                      chunks |-> i - 1]
    IN  IF i > Len(ct.recs)
        THEN IF ct.tail # 0 THEN fail("chunk_size")
             ELSE IF ~TotalMatches(total_decrypted, ct.size) THEN fail("size_mismatch")
             ELSE [err |-> NoErr, out |-> out, chunks |-> i - 1]
        ELSE LET rec == ct.recs[i]
                 chunk_number == i - 1
                 avail == BlobLen(rec.blob) + RecBytes(ct.recs, i + 1) + ct.tail
                 opens == /\ rec.len = BlobLen(rec.blob)
                          /\ AeadOpens(rec.blob, key,
                                       DeriveChunkNonce(ct.nonce, chunk_number),
                                       ChunkAd(associated_data, chunk_number))
             IN  IF ~ChunkComplete(Min(avail, rec.len), rec.len) THEN fail("chunk_data")
                 ELSE IF ~opens THEN fail("auth")
                 ELSE DecryptChunks(ct, i + 1, key, associated_data,
                                    WriteBytes(out, rec.blob.pt),
                                    total_decrypted + rec.blob.ptlen)

DecryptFile(ct, key, associated_data) ==
    LET fail(why) == [err |-> Err("DecryptionError", why), out |-> <<>>,
                      chunks |-> 0]
    IN  IF ct.hdr < 1 THEN fail("empty")
        ELSE IF ct.version # VERSION THEN fail("version")
        ELSE IF ct.hdr < 1 + NONCE_SIZE THEN fail("header")
        ELSE IF ct.hdr < HeaderLen THEN fail("header")
        ELSE DecryptChunks(ct, 1, key, associated_data, <<>>, 0)

\* decrypt_file statement by statement.  A call in progress is a record
\* [key, ad, err, out, chunks, total, pc]: out is the output sink, chunks
\* the value of chunk_number, total that of total_decrypted, pc one of
\* "loop" (at the head of the while loop), "raised", "returned".
\* The statements up to the loop: the header is read and checked
DecryptFileStart(ct, key, associated_data) ==
    LET at(pc, why) ==
            [key |-> key, ad |-> associated_data,
             err |-> IF pc = "raised" THEN Err("DecryptionError", why) ELSE NoErr,
             out |-> <<>>, chunks |-> 0, total |-> 0, pc |-> pc]
    IN  IF ct.hdr < 1 THEN at("raised", "empty")
        ELSE IF ct.version # VERSION THEN at("raised", "version")
        ELSE IF ct.hdr < 1 + NONCE_SIZE THEN at("raised", "header")
        ELSE IF ct.hdr < HeaderLen THEN at("raised", "header")
        ELSE at("loop", "none")

\* a loop body that writes what AESGCM.decrypt was given, verified or not
TagVerifiedAlways(opens) == TRUE

\* self._aesgcm.decrypt returned (did not raise) before output_file.write
TagVerified(opens) == opens

\* one pass through the while loop, or the statements after it
DecryptFileStep(ct, call) ==
    LET i == call.chunks + 1
        raise(why) == [call EXCEPT !.err = Err("DecryptionError", why),
                                   !.pc = "raised"]
        body(rec) ==
            IF ~ChunkComplete(Min(BlobLen(rec.blob) + RecBytes(ct.recs, i + 1) + ct.tail,
                                  rec.len), rec.len)
            THEN raise("chunk_data")
            ELSE IF ~TagVerified(/\ rec.len = BlobLen(rec.blob)
                                 /\ AeadOpens(rec.blob, call.key,
                                        DeriveChunkNonce(ct.nonce, call.chunks),
                                        ChunkAd(call.ad, call.chunks)))
            THEN raise("auth")
            ELSE [call EXCEPT !.out = WriteBytes(@, rec.blob.pt),
                              !.total = @ + rec.blob.ptlen,
                              !.chunks = @ + 1]
    IN  IF i > Len(ct.recs)
        THEN IF ct.tail # 0 THEN raise("chunk_size")
             ELSE IF ~TotalMatches(call.total, ct.size) THEN raise("size_mismatch")
             ELSE [call EXCEPT !.pc = "returned"]
        ELSE body(ct.recs[i])

\* ------------------------------------------------------------------------
\* FileProcessor: the manifest
\* ------------------------------------------------------------------------
FileMetadata(relative_path, original_size, encrypted_size, is_directory, permissions) ==
    [relative_path |-> relative_path, original_size |-> original_size,
     encrypted_size |-> encrypted_size, is_directory |-> is_directory,
     permissions |-> permissions]

MetadataPath == <<METADATA_FILENAME>>
SaltPath == <<SALT_FILENAME>>

\* FileProcessor._save_metadata: the JSON document {"version": 1, "files":
\* [asdict(m), ...]} is sealed under a fresh nonce with b"metadata" as AD
\* and written as nonce || blob.  The JSON object is the record itself.
SaveMetadata(fs, metadata_list, key, nonce) ==
    LET doc == [version |-> 1, files |-> metadata_list]
        blob == Seal(key, nonce, doc, Len(metadata_list), METADATA_AD)
    IN  IF ~CanOpenForWrite(fs, MetadataPath)
        THEN [fs |-> fs, err |-> Err("FileProcessingError", "save_metadata")]
        ELSE [fs |-> Put(fs, MetadataPath,
                         FileNode("umask", [nonce |-> nonce, blob |-> blob])),
              err |-> NoErr]

\* FileMetadata(**m): the keyword arguments the dataclass accepts; only
\* permissions has a default (None)
EntryFields ==
    {"relative_path", "original_size", "encrypted_size", "is_directory", "permissions"}

AcceptsFields(m) ==
    /\ DOMAIN m \subseteq EntryFields
    /\ EntryFields \ {"permissions"} \subseteq DOMAIN m

ParseEntry(m) ==
    FileMetadata(m.relative_path, m.original_size, m.encrypted_size, m.is_directory,
                 IF "permissions" \in DOMAIN m THEN m.permissions ELSE "none")

\* FileProcessor._load_metadata
LoadMetadata(fs, key) ==
    LET fail(why) == [err |-> Err("InvalidMetadataError", why), files |-> <<>>]
    IN  IF ~Exists(fs, MetadataPath) THEN fail("metadata_not_found")
        ELSE IF IsDir(fs, MetadataPath) THEN fail("io")
        ELSE LET f == fs[MetadataPath].data
                 doc == f.blob.pt
                 files == IF "files" \in DOMAIN doc THEN doc.files ELSE <<>>
             IN  IF ~AeadOpens(f.blob, key, f.nonce, METADATA_AD) THEN fail("auth")
                 ELSE IF "version" \notin DOMAIN doc \/ doc.version # 1
                 THEN fail("metadata_version")
                 ELSE IF \E i \in 1..Len(files) : ~AcceptsFields(files[i])
                 THEN fail("metadata_fields")
                 ELSE [err |-> NoErr,
                       files |-> [i \in 1..Len(files) |-> ParseEntry(files[i])]]

\* ------------------------------------------------------------------------
\* FileProcessor.encrypt_folder
\* ------------------------------------------------------------------------
\* a collection that returns the files before the directories
CollectItemsFilesFirst(tree) ==
    LET items == DOMAIN tree \ {<<>>}
    IN  SortPaths({p \in items : tree[p].kind # "dir"})
        \o SortPaths({p \in items : tree[p].kind = "dir"})

\* a collection that leaves the directories out
CollectItemsFilesOnly(tree) ==
    SortPaths({p \in DOMAIN tree \ {<<>>} : tree[p].kind # "dir"})

\* FileProcessor._collect_items: sorted(directories) + sorted(files)
CollectItems(tree) ==
    LET items == DOMAIN tree \ {<<>>}
    IN  SortPaths({p \in items : tree[p].kind = "dir"})
        \o SortPaths({p \in items : tree[p].kind # "dir"})

\* encrypt_file / decrypt_file called with their default associated data
FileAdEmpty(relative_path) == <<>>

\* ad = str(relative_path).encode("utf-8")
FileAd(relative_path) == PathStr(relative_path)

\* output_path / (str(relative_path) + ENCRYPTED_EXTENSION)
EncryptedPath(relative_path) == ParsePath(PathStr(relative_path) \o ENCRYPTED_EXTENSION)

\* an enumerate that counts from 0
ProgressIndexFromZero(idx) == idx - 1

\* enumerate(all_items, 1): the count given to the observer
ProgressIndex(idx) == idx

\* progress_callback(str(relative_path), idx, total_items), the observer
\* being one that records its arguments and the paths that exist in the
\* output directory when it is called
Observed(calls, name, idx, total_items, fs) ==
    Append(calls, [relative_path |-> name, current |-> ProgressIndex(idx),
                   total |-> total_items, seen |-> DOMAIN fs])

RECURSIVE SealsOf(_, _, _)
SealsOf(ct, rel, i) ==
    IF i > Len(ct.recs) THEN <<>>
    ELSE <<[key |-> ct.recs[i].blob.key, nonce |-> ct.recs[i].blob.nonce,
            path |-> rel, chunk |-> i - 1]>> \o SealsOf(ct, rel, i + 1)

\* the loop body of encrypt_folder, entry by entry; st is the running state:
\* the output file system, the metadata list, the AES-GCM seal operations
\* made so far, the paths written so far (in order), the calls of the
\* progress observer and the exception raised (if any)
RECURSIVE EncryptItems(_, _, _, _, _, _)
EncryptItems(tree, items, idx, st, key, file_nonce) ==
    IF idx > Len(items) \/ st.err # NoErr THEN st
    ELSE
      LET relative_path == items[idx]
          node == tree[relative_path]
          called == Observed(st.calls, PathStr(relative_path), idx, Len(items), st.fs)
      IN
      IF node.kind = "dir"
      THEN EncryptItems(tree, items, idx + 1,
               [st EXCEPT !.meta = Append(@,
                   FileMetadata(PathStr(relative_path), 0, 0, TRUE, node.mode)),
                          !.calls = called],
               key, file_nonce)
      ELSE
        LET output_file_path == EncryptedPath(relative_path)
            mk == Mkdirs(st.fs, Parent(output_file_path))
            original_size == ByteLen(node.data)
            ct == EncryptFile(relative_path, original_size, key,
                              file_nonce[relative_path], FileAd(relative_path))
        IN  IF ~mk.ok
            THEN [st EXCEPT !.fs = mk.fs, !.calls = called,
                            !.err = Err("OSError", "mkdir")]
            ELSE IF ~CanOpenForWrite(mk.fs, output_file_path)
            THEN [st EXCEPT !.fs = mk.fs, !.calls = called,
                            !.err = Err("FileProcessingError", "io")]
            ELSE EncryptItems(tree, items, idx + 1,
                   [fs |-> Put(mk.fs, output_file_path, FileNode("umask", ct)),
                    meta |-> Append(st.meta,
                        FileMetadata(PathStr(relative_path), original_size,
                                     CtSize(ct), FALSE, node.mode)),
                    seals |-> st.seals \o SealsOf(ct, relative_path, 1),
                    writes |-> Append(st.writes, output_file_path),
                    calls |-> called,
                    err |-> NoErr],
                   key, file_nonce)

ProcessorEncryptFolder(tree, fs, key, file_nonce, meta_nonce) ==
    LET root == Mkdirs(fs, <<>>)
        \* self._save_metadata(output_path, metadata_list) after the loop
        save(st, saved) ==
            [fs |-> saved.fs, meta |-> st.meta,
             seals |-> Append(st.seals, [key |-> key, nonce |-> meta_nonce,
                                         path |-> MetadataPath, chunk |-> 0]),
             writes |-> IF saved.err = NoErr THEN Append(st.writes, MetadataPath)
                        ELSE st.writes,
             calls |-> st.calls,
             err |-> saved.err]
        after_loop(st) ==
            IF st.err # NoErr THEN st
            ELSE save(st, SaveMetadata(st.fs, st.meta, key, meta_nonce))
    IN  IF ~Exists(tree, <<>>) \/ ~IsDir(tree, <<>>)
        THEN [fs |-> fs, meta |-> <<>>, seals |-> <<>>, writes |-> <<>>,
              calls |-> <<>>, err |-> Err("FileProcessingError", "input")]
        ELSE after_loop(EncryptItems(tree, CollectItems(tree), 1,
                 [fs |-> root.fs, meta |-> <<>>, seals |-> <<>>, writes |-> <<>>,
                  calls |-> <<>>, err |-> NoErr],
                 key, file_nonce))

\* ------------------------------------------------------------------------
\* FileProcessor.decrypt_folder
\* ------------------------------------------------------------------------
\* os.chmod(path, permissions); it raises for the paths in denied (the
\* paths whose mode the process may not change)
Chmod(fs, p, permissions, denied) ==
    IF p \in denied THEN [fs |-> fs, err |-> Err("PermissionError", "chmod")]
    ELSE [fs |-> [fs EXCEPT ![p] = [@ EXCEPT !.mode = permissions]], err |-> NoErr]

\* a handler that raises the exception of os.chmod again
ChmodErrorRaised(err) == err

\* except Exception: pass
ChmodErrorPassed(err) == NoErr

\* if metadata.permissions: try: os.chmod(...) except Exception: pass
RestoreMode(fs, p, permissions, denied) ==
    IF permissions = "none" THEN [fs |-> fs, err |-> NoErr]
    ELSE [fs |-> Chmod(fs, p, permissions, denied).fs,
          err |-> ChmodErrorPassed(Chmod(fs, p, permissions, denied).err)]

\* the `except Exception` clause around decrypt_file: a FileProcessingError
\* passes, anything else is raised again as FileProcessingError
WrapFileError(err) == Err("FileProcessingError", err.why)

\* decrypt_folder without its size check
SizeMatchesAlways(decrypted_size, original_size) == TRUE

\* the check after decrypt_file: decrypted_size == metadata.original_size
SizeMatches(decrypted_size, original_size) == decrypted_size = original_size

\* a decrypt_folder that does not look for the ciphertext file before it
\* opens it
CiphertextPresentAlways(enc_fs, encrypted_file_path) == TRUE

\* the check before the files are opened: encrypted_file_path.exists()
CiphertextPresent(enc_fs, encrypted_file_path) == Exists(enc_fs, encrypted_file_path)

RECURSIVE DecryptItems(_, _, _, _, _, _)
DecryptItems(enc_fs, metadata_list, idx, st, key, denied) ==
    IF idx > Len(metadata_list) \/ st.err # NoErr THEN st
    ELSE
      LET metadata == metadata_list[idx]
          relative_path == ParsePath(metadata.relative_path)
          called == Observed(st.calls, PathStr(relative_path), idx,
                             Len(metadata_list), st.fs)
          raise(fs, err) == [fs |-> fs, calls |-> called, err |-> err]
          restored(rm) == [fs |-> rm.fs, calls |-> called, err |-> rm.err]
      IN
      IF metadata.is_directory
      THEN LET mk == Mkdirs(st.fs, relative_path)
           IN  IF ~mk.ok THEN raise(mk.fs, Err("OSError", "mkdir"))
               ELSE DecryptItems(enc_fs, metadata_list, idx + 1,
                        restored(RestoreMode(mk.fs, relative_path,
                                             metadata.permissions, denied)),
                        key, denied)
      ELSE
        LET encrypted_file_path == EncryptedPath(relative_path)
            mk == Mkdirs(st.fs, Parent(relative_path))
            r == DecryptFile(enc_fs[encrypted_file_path].data, key,
                             FileAd(relative_path))
            written == Put(mk.fs, relative_path,
                           FileNode(IF Exists(mk.fs, relative_path)
                                    THEN mk.fs[relative_path].mode ELSE "umask",
                                    r.out))
        IN  IF ~mk.ok THEN raise(mk.fs, Err("OSError", "mkdir"))
            ELSE IF ~CiphertextPresent(enc_fs, encrypted_file_path)
            THEN raise(mk.fs, Err("FileProcessingError", "not_found"))
            ELSE IF ~IsFile(enc_fs, encrypted_file_path)
                    \/ ~CanOpenForWrite(mk.fs, relative_path)
            THEN raise(mk.fs, Err("FileProcessingError", "io"))
            ELSE IF r.err # NoErr THEN raise(written, WrapFileError(r.err))
            ELSE IF ~SizeMatches(ByteLen(r.out), metadata.original_size)
            THEN raise(written, Err("FileProcessingError", "size_mismatch"))
            ELSE DecryptItems(enc_fs, metadata_list, idx + 1,
                     restored(RestoreMode(written, relative_path,
                                          metadata.permissions, denied)),
                     key, denied)

ProcessorDecryptFolder(enc_fs, out_fs, key, denied) ==
    LET root == Mkdirs(out_fs, <<>>)
        after_load(loaded) ==
            IF loaded.err # NoErr
            THEN [fs |-> out_fs, calls |-> <<>>, err |-> loaded.err]
            ELSE DecryptItems(enc_fs, loaded.files, 1,
                              [fs |-> root.fs, calls |-> <<>>, err |-> NoErr],
                              key, denied)
    IN  IF ~IsDir(enc_fs, <<>>)
        THEN [fs |-> out_fs, calls |-> <<>>,
              err |-> Err("FileProcessingError", "input")]
        ELSE after_load(LoadMetadata(enc_fs, key))

\* ------------------------------------------------------------------------
\* KeyDerivation and the services
\* ------------------------------------------------------------------------
\* KeyDerivation(use_argon2) where `from argon2 import ...` succeeds or
\* raises ImportError: the import is tried only when Argon2id was requested
KeyDerivationInit(use_argon2, importable) ==
    [use_argon2 |-> use_argon2, argon2_available |-> use_argon2 /\ importable]

\* KeyDerivation._derive_key_argon2 (symbolic, like the PBKDF2 branch)
DeriveKeyArgon2(password, salt) == [alg |-> "argon2id", pw |-> password, salt |-> salt]

\* a selection that looks at the request only
UsesArgon2IfRequested(key_derivation_object) == key_derivation_object.use_argon2

\* if self._argon2_available and self.use_argon2
UsesArgon2(key_derivation_object) ==
    key_derivation_object.argon2_available /\ key_derivation_object.use_argon2

\* KeyDerivation.derive_key of the given object
DeriveKeyOf(key_derivation_object, password, salt) ==
    IF Len(password) = 0
    THEN [err |-> Err("InvalidPasswordError", "empty_password"), key |-> <<>>]
    ELSE IF Len(salt) # SALT_SIZE
    THEN [err |-> Err("InvalidPasswordError", "salt_size"), key |-> <<>>]
    ELSE IF UsesArgon2(key_derivation_object)
    THEN [err |-> NoErr, key |-> DeriveKeyArgon2(password, salt)]
    ELSE [err |-> NoErr, key |-> DeriveKeyPbkdf2(password, salt)]

\* the object of a service constructed without arguments: use_argon2 = False
DefaultKeyDerivation == KeyDerivationInit(FALSE, FALSE)

\* KeyDerivation.derive_key with use_argon2 = False
DeriveKey(password, salt) == DeriveKeyOf(DefaultKeyDerivation, password, salt)

\* a strength check that accepts every password
PasswordAcceptableAlways(password) == TRUE

\* KeyDerivation.verify_password_strength, the is_valid component
PasswordAcceptable(password) == Len(password) >= MIN_PASSWORD_LEN

\* str.isupper, str.islower, str.isdigit and str.isalnum of one character,
\* on the characters of the model: ASCII and one letter without case
CaselessLetter == 20013
CharIsUpper(c) == c \in 65..90
CharIsLower(c) == c \in 97..122
CharIsDigit(c) == c \in 48..57
CharIsAlnum(c) == CharIsUpper(c) \/ CharIsLower(c) \/ CharIsDigit(c) \/ c = CaselessLetter

\* int(bool)
BoolInt(b) == IF b THEN 1 ELSE 0

\* a score that does not count the non-alphanumeric class
StrengthScoreNoSpecial(password) ==
    BoolInt(\E i \in 1..Len(password) : CharIsUpper(password[i]))
    + BoolInt(\E i \in 1..Len(password) : CharIsLower(password[i]))
    + BoolInt(\E i \in 1..Len(password) : CharIsDigit(password[i]))

\* strength_score = sum([has_upper, has_lower, has_digit, has_special])
StrengthScore(password) ==
    BoolInt(\E i \in 1..Len(password) : CharIsUpper(password[i]))
    + BoolInt(\E i \in 1..Len(password) : CharIsLower(password[i]))
    + BoolInt(\E i \in 1..Len(password) : CharIsDigit(password[i]))
    + BoolInt(\E i \in 1..Len(password) : ~CharIsAlnum(password[i]))

\* KeyDerivation.verify_password_strength: (is_valid, message); a password
\* here is the sequence of its characters (code points)
STRONG_PASSWORD_LEN == 12

VerifyPasswordStrength(password) ==
    IF ~PasswordAcceptable(password)
    THEN [is_valid |-> FALSE, message |-> "at least 8 characters"]
    ELSE IF Len(password) < STRONG_PASSWORD_LEN
    THEN [is_valid |-> TRUE, message |-> "weak but acceptable"]
    ELSE IF StrengthScore(password) >= 3
    THEN [is_valid |-> TRUE, message |-> "strong"]
    ELSE IF StrengthScore(password) >= 2
    THEN [is_valid |-> TRUE, message |-> "moderate"]
    ELSE [is_valid |-> TRUE, message |-> "weak but acceptable"]

\* EncryptService.encrypt_folder: the exceptions listed in its except clause
\* pass, any other is raised again as EncryptionError
EncryptServiceError(err) ==
    IF err.cls \in {"InvalidPasswordError", "EncryptionError", "FileProcessingError"}
    THEN err ELSE Err("EncryptionError", err.why)

\* EncryptService(use_argon2, verify_password_strength).encrypt_folder, the
\* service holding the given KeyDerivation object
EncryptServiceOf(key_derivation_object, tree, fs, password, verify, salt, file_nonce, meta_nonce) ==
    LET raise(f, sl, wr, cl, err) ==
            [fs |-> f, seals |-> sl, writes |-> wr, calls |-> cl,
             err |-> EncryptServiceError(err)]
        \* after file_processor.encrypt_folder: the salt is saved
        save_salt(r) ==
            IF r.err # NoErr THEN raise(r.fs, r.seals, r.writes, r.calls, r.err)
            ELSE IF ~CanOpenForWrite(r.fs, SaltPath)
            THEN raise(r.fs, r.seals, r.writes, r.calls, Err("OSError", "io"))
            ELSE [fs |-> Put(r.fs, SaltPath, FileNode("umask", salt)),
                  seals |-> r.seals, writes |-> Append(r.writes, SaltPath),
                  calls |-> r.calls, err |-> NoErr]
        \* after derive_key
        with_key(derived) ==
            IF derived.err # NoErr THEN raise(fs, <<>>, <<>>, <<>>, derived.err)
            ELSE save_salt(ProcessorEncryptFolder(tree, fs, derived.key, file_nonce,
                                                  meta_nonce))
    IN  IF verify /\ ~PasswordAcceptable(password)
        THEN [fs |-> fs, seals |-> <<>>, writes |-> <<>>, calls |-> <<>>,
              err |-> Err("InvalidPasswordError", "weak_password")]
        ELSE with_key(DeriveKeyOf(key_derivation_object, password, salt))

\* EncryptService(verify_password_strength = verify).encrypt_folder
EncryptService(tree, fs, password, verify, salt, file_nonce, meta_nonce) ==
    EncryptServiceOf(DefaultKeyDerivation, tree, fs, password, verify, salt,
                     file_nonce, meta_nonce)

\* an except clause that lets every exception pass
DecryptServiceErrorPassAll(err) == err

\* a decrypt_folder that does not check the length of the salt it read
DecryptServiceNoSaltCheck(enc_fs, out_fs, password, denied) ==
    LET raise(f, cl, err) ==
            [fs |-> f, calls |-> cl,
             err |-> IF err.cls \in {"DecryptionError", "FileProcessingError"}
                     THEN err ELSE Err("DecryptionError", err.why)]
        done(r) == IF r.err # NoErr THEN raise(r.fs, r.calls, r.err) ELSE r
        with_key(derived) ==
            IF derived.err # NoErr
            THEN raise(out_fs, <<>>, Err("DecryptionError", derived.err.why))
            ELSE done(ProcessorDecryptFolder(enc_fs, out_fs, derived.key, denied))
    IN  IF ~Exists(enc_fs, SaltPath)
        THEN raise(out_fs, <<>>, Err("DecryptionError", "salt_not_found"))
        ELSE IF IsDir(enc_fs, SaltPath) THEN raise(out_fs, <<>>, Err("OSError", "io"))
        ELSE with_key(DeriveKey(password, enc_fs[SaltPath].data))

\* DecryptService.decrypt_folder: DecryptionError and FileProcessingError
\* pass, any other exception is raised again as DecryptionError
DecryptServiceError(err) ==
    IF err.cls \in {"DecryptionError", "FileProcessingError"}
    THEN err ELSE Err("DecryptionError", err.why)

\* DecryptService(use_argon2).decrypt_folder, the service holding the given
\* KeyDerivation object
DecryptServiceOf(key_derivation_object, enc_fs, out_fs, password, denied) ==
    LET raise(f, cl, err) == [fs |-> f, calls |-> cl, err |-> DecryptServiceError(err)]
        \* after file_processor.decrypt_folder
        done(r) == IF r.err # NoErr THEN raise(r.fs, r.calls, r.err) ELSE r
        \* after derive_key
        with_key(derived) ==
            IF derived.err # NoErr
            THEN raise(out_fs, <<>>, Err("DecryptionError", derived.err.why))
            ELSE done(ProcessorDecryptFolder(enc_fs, out_fs, derived.key, denied))
        \* after the salt file was read
        with_salt(salt) ==
            IF Len(salt) # SALT_SIZE
            THEN raise(out_fs, <<>>, Err("DecryptionError", "salt_invalid"))
            ELSE with_key(DeriveKeyOf(key_derivation_object, password, salt))
    IN  IF ~Exists(enc_fs, SaltPath)
        THEN raise(out_fs, <<>>, Err("DecryptionError", "salt_not_found"))
        ELSE IF IsDir(enc_fs, SaltPath) THEN raise(out_fs, <<>>, Err("OSError", "io"))
        ELSE with_salt(enc_fs[SaltPath].data)

\* DecryptService().decrypt_folder
DecryptService(enc_fs, out_fs, password, denied) ==
    DecryptServiceOf(DefaultKeyDerivation, enc_fs, out_fs, password, denied)

\* ------------------------------------------------------------------------
\* Inputs of the model
\* ------------------------------------------------------------------------
NameA == <<97>>
NameB == <<98>>
NameAEnc == NameA \o ENCRYPTED_EXTENSION

\* the paths a source tree may contain: "a", "a.encrypted", "a.encrypted/b"
TreePaths == {<<NameA>>, <<NameAEnc>>, <<NameAEnc, NameB>>}

\* sizes of source files: empty, smaller than a chunk, two chunks
FileSizes == {0, 13, CHUNK_SIZE + 1}

\* kinds[p] = -1 for a directory, the size for a regular file
TreeOf(S, kinds) ==
    [p \in S \cup {<<>>} |->
        IF p = <<>> \/ kinds[p] = -1 THEN DirNode("drwxr-xr-x")
        ELSE FileNode("-rw-r--r--", WholeFile(p, kinds[p]))]

Trees ==
    UNION { { TreeOf(S, kinds) : kinds \in
                { k \in [S -> {-1} \cup FileSizes] :
                    \A p \in S : Len(p) > 1 =>
                        (Parent(p) \in S /\ k[Parent(p)] = -1) } }
            : S \in SUBSET TreePaths }

\* trees over the paths and file sizes given
TreesOver(paths, sizes) ==
    UNION { { TreeOf(S, kinds) : kinds \in
                { k \in [S -> {-1} \cup sizes] :
                    \A p \in S : Len(p) > 1 =>
                        (Parent(p) \in S /\ k[Parent(p)] = -1) } }
            : S \in SUBSET paths }

\* trees whose names meet the names encrypt_folder makes up: "a" and
\* "a.encrypted", ".salt", ".folder_crypto_metadata.enc", each possibly a
\* directory holding "b"
WidePaths ==
    UNION { {<<name>>, <<name, NameB>>} :
              name \in {NameA, NameAEnc, SALT_FILENAME, METADATA_FILENAME} }

WideTrees == TreesOver(WidePaths, {13})

\* passwords given to the services: strong, shorter than 8 characters, empty
AnyPasswords == {"CorrectHorseBattery", "short", ""}

EncPasswords == {"CorrectHorseBattery"}
DecPasswords == {"CorrectHorseBattery", "correcthorsebattery", ""}

FilesOf(tree) == {p \in DOMAIN tree : tree[p].kind = "file"}

\* ------------------------------------------------------------------------
\* State
\* ------------------------------------------------------------------------
VARIABLES
    src,        \* the source tree T
    enc,        \* the encrypted directory E
    out,        \* the output directory D of decrypt_folder
    phase,      \* "plain", "encrypted", "tampered", "decrypted", "failed"
    password,   \* the password given to encrypt_folder
    guess,      \* the password given to decrypt_folder
    result,     \* the exception raised by the last service call, or NoErr
    seals,      \* the AES-GCM seal operations of the encrypt_folder run
    writes,     \* the paths of E written by the encrypt_folder run, in order
    enc0,       \* E as encrypt_folder left it
    tamper,     \* the modification made to E since
    strength,   \* EncryptService.verify_password_strength of the service object
    calls,      \* the calls of the progress observer in the last service call
    key_derivation, \* the KeyDerivation objects of the two service objects
    \* CryptoEngine used on its own (encrypt_file / decrypt_file on streams)
    plain,      \* size in bytes of the plaintext stream
    ad0,        \* associated data given to encrypt_file
    ect,        \* the encrypted stream
    alter,      \* what was done to the encrypted stream since
    opened,     \* key, associated data and outcome of decrypt_file
    epc,        \* "idle", "plain", "sealed", "altered", "opened"
    \* KeyDerivation used on its own
    kdf,        \* arguments and outcome of derive_key
    \* CryptoEngine._derive_chunk_nonce used on its own
    chunk_nonce \* arguments and result of _derive_chunk_nonce

\* the KeyDerivation objects of services constructed without arguments
DefaultObjects == [enc |-> DefaultKeyDerivation, dec |-> DefaultKeyDerivation]

tree_vars ==
    <<src, enc, out, phase, password, guess, result, seals, writes, enc0, tamper, strength,
      calls, key_derivation>>
engine_vars == <<plain, ad0, ect, alter, opened, epc, kdf, chunk_nonce>>
vars == <<tree_vars, engine_vars>>

Tampering(kind, path, field, i, j, other) ==
    [kind |-> kind, path |-> path, field |-> field, i |-> i, j |-> j,
     other |-> other]
NoTamper == Tampering("none", <<>>, "none", 0, 0, <<>>)

NoStream == [hdr |-> 0, version |-> 0, nonce |-> <<>>, size |-> 0,
             recs |-> <<>>, tail |-> 0]
NoAlter == [kind |-> "none", n |-> 0]
NotOpened == [key |-> <<>>, ad |-> <<>>, err |-> NoErr, out |-> <<>>, chunks |-> 0]
NoKdf == [password |-> "", salt |-> <<>>, pc |-> "idle", err |-> NoErr, key |-> <<>>,
          err2 |-> NoErr, key2 |-> <<>>, is_valid |-> FALSE, message |-> "none"]

NoNonceCall == [base |-> <<>>, index |-> 0, pc |-> "idle", out |-> <<>>]

EngineIdle ==
    /\ plain = 0
    /\ ad0 = <<>>
    /\ ect = NoStream
    /\ alter = NoAlter
    /\ opened = NotOpened
    /\ epc = "idle"
    /\ kdf = NoKdf
    /\ chunk_nonce = NoNonceCall

Init ==
    /\ EngineIdle
    /\ src \in Trees
    /\ enc = NoFs
    /\ out = NoFs
    /\ phase = "plain"
    /\ password = ""
    /\ guess = ""
    /\ result = NoErr
    /\ seals = <<>>
    /\ writes = <<>>
    /\ enc0 = NoFs
    /\ tamper = NoTamper
    /\ strength = TRUE
    /\ calls = <<>>
    /\ key_derivation = DefaultObjects

\* EncryptService.encrypt_folder(T, E, P) into a fresh directory E
Encrypt ==
    /\ phase = "plain"
    /\ \E pw \in EncPasswords, salt \in Salts,
          file_nonce \in [FilesOf(src) -> Nonces], meta_nonce \in Nonces :
          \E r \in {EncryptService(src, NoFs, pw, strength, salt, file_nonce, meta_nonce)} :
              /\ enc' = r.fs
              /\ enc0' = r.fs
              /\ seals' = r.seals
              /\ writes' = r.writes
              /\ calls' = r.calls
              /\ result' = r.err
              /\ password' = pw
              /\ phase' = IF r.err = NoErr THEN "encrypted" ELSE "failed"
    /\ UNCHANGED <<src, out, guess, tamper, strength, key_derivation>>
    /\ UNCHANGED engine_vars

\* DecryptService.decrypt_folder(E, D, P') into a fresh directory D, where
\* the process may change every mode
Decrypt ==
    /\ phase \in {"encrypted", "tampered"}
    /\ \E pw \in DecPasswords :
          \E r \in {DecryptService(enc, NoFs, pw, {})} :
              /\ out' = r.fs
              /\ calls' = r.calls
              /\ result' = r.err
              /\ guess' = pw
              /\ phase' = "decrypted"
    /\ UNCHANGED <<src, enc, password, seals, writes, enc0, tamper, strength, key_derivation>>
    /\ UNCHANGED engine_vars

\* ------------------------------------------------------------------------
\* The adversary: one modification of E by a party that does not hold the
\* key.  It can change, cut, move and replay bytes; it cannot seal.
\* ------------------------------------------------------------------------
CtPaths(fs) ==
    {p \in DOMAIN fs : fs[p].kind = "file" /\ p # MetadataPath /\ p # SaltPath}

SetData(fs, p, data) == [fs EXCEPT ![p] = [@ EXCEPT !.data = data]]

FlipBits == 0..MaxFlipBit

\* ptlen bytes announced by the first n records
RECURSIVE PlainLen(_, _)
PlainLen(recs, n) == IF n = 0 THEN 0 ELSE recs[n].blob.ptlen + PlainLen(recs, n - 1)

Modify(fs, t) ==
    /\ phase = "encrypted"
    /\ enc' = fs
    /\ tamper' = t
    /\ phase' = "tampered"
    /\ UNCHANGED <<src, out, password, guess, result, seals, writes, enc0, strength, key_derivation, calls>>
    /\ UNCHANGED engine_vars

\* one bit of the 21-byte header of a ciphertext file
FlipHeaderBit ==
    \E p \in CtPaths(enc), k \in FlipBits :
        LET ct == enc[p].data
        IN  \/ Modify(SetData(enc, p, [ct EXCEPT !.version = BitXor(@, Pow2(k))]),
                      Tampering("flip", p, "version", 0, k, <<>>))
            \/ \E j \in {1, NONCE_SIZE - 7, NONCE_SIZE} :
                 Modify(SetData(enc, p, [ct EXCEPT !.nonce[j] = BitXor(@, Pow2(k))]),
                        Tampering("flip", p, "nonce", j, k, <<>>))
            \/ \E b \in {k, 16 + k} :
                 Modify(SetData(enc, p, [ct EXCEPT !.size = BitXor(@, Pow2(b))]),
                        Tampering("flip", p, "size", 0, b, <<>>))

\* one bit of the u32 length prefix of a chunk record
FlipPrefixBit ==
    \E p \in CtPaths(enc), k \in FlipBits \cup {4, 20} :
      \E i \in 1..Len(enc[p].data.recs) :
        Modify(SetData(enc, p,
                   [enc[p].data EXCEPT !.recs[i].len = BitXor(@, Pow2(k))]),
               Tampering("flip", p, "prefix", i, k, <<>>))

\* one bit of the ciphertext or tag of a chunk
FlipChunkBit ==
    \E p \in CtPaths(enc) :
      \E i \in 1..Len(enc[p].data.recs) :
        Modify(SetData(enc, p,
                   [enc[p].data EXCEPT !.recs[i].blob.intact = FALSE]),
               Tampering("flip", p, "chunk", i, 0, <<>>))

\* one bit of .folder_crypto_metadata.enc: of the nonce or of the blob
FlipManifestBit ==
    /\ IsFile(enc, MetadataPath)
    /\ LET f == enc[MetadataPath].data
       IN  \/ \E j \in {1, NONCE_SIZE}, k \in FlipBits :
                Modify(SetData(enc, MetadataPath,
                           [f EXCEPT !.nonce[j] = BitXor(@, Pow2(k))]),
                       Tampering("flip", MetadataPath, "nonce", j, k, <<>>))
           \/ Modify(SetData(enc, MetadataPath, [f EXCEPT !.blob.intact = FALSE]),
                     Tampering("flip", MetadataPath, "blob", 0, 0, <<>>))

\* one bit of .salt
FlipSaltBit ==
    /\ IsFile(enc, SaltPath)
    /\ \E j \in {1, SALT_SIZE}, k \in FlipBits :
         Modify(SetData(enc, SaltPath,
                    [enc[SaltPath].data EXCEPT ![j] = BitXor(@, Pow2(k))]),
                Tampering("flip", SaltPath, "salt", j, k, <<>>))

\* .salt cut to n bytes, or one byte added to it
ResizeSalt ==
    /\ IsFile(enc, SaltPath)
    /\ LET salt == enc[SaltPath].data
       IN  \/ \E n \in {0, SALT_SIZE \div 2, SALT_SIZE - 1} :
                Modify(SetData(enc, SaltPath, SubSeq(salt, 1, n)),
                       Tampering("resize", SaltPath, "salt", n, 0, <<>>))
           \/ Modify(SetData(enc, SaltPath, Append(salt, 0)),
                     Tampering("resize", SaltPath, "salt", SALT_SIZE + 1, 0, <<>>))

\* the last n chunk records removed; the header size field is left as it
\* was ("kept") or rewritten to the size of what remains ("fixed")
TruncateChunks ==
    \E p \in CtPaths(enc), fix \in BOOLEAN :
      \E n \in 1..Len(enc[p].data.recs) :
        LET ct == enc[p].data
            kept == Len(ct.recs) - n
        IN  Modify(SetData(enc, p,
                       [ct EXCEPT !.recs = SubSeq(ct.recs, 1, kept),
                                  !.size = IF fix THEN PlainLen(ct.recs, kept) ELSE @]),
                   Tampering("truncate", p, IF fix THEN "fixed" ELSE "kept", n, 0, <<>>))

\* the file cut at a byte that is not a record boundary: inside the header,
\* inside a length prefix, or inside a chunk
TruncateBytes ==
    \E p \in CtPaths(enc) :
        LET ct == enc[p].data
        IN  \/ \E h \in {0, 1, NONCE_SIZE, HeaderLen - 1} :
                 Modify(SetData(enc, p, [ct EXCEPT !.hdr = h, !.recs = <<>>]),
                        Tampering("cut", p, "header", h, 0, <<>>))
            \/ \E n \in 1..Len(ct.recs), t \in {1, 3} :
                 Modify(SetData(enc, p,
                            [ct EXCEPT !.recs = SubSeq(ct.recs, 1, n - 1), !.tail = t]),
                        Tampering("cut", p, "prefix", n, t, <<>>))
            \/ \E n \in 1..Len(ct.recs) :
                 \E c \in {1, BlobLen(ct.recs[n].blob)} :
                   Modify(SetData(enc, p,
                              [ct EXCEPT !.recs = [SubSeq(ct.recs, 1, n)
                                                     EXCEPT ![n].blob.cut = c]]),
                          Tampering("cut", p, "chunk", n, c, <<>>))

\* two chunk records of one file exchanged
SwapChunks ==
    \E p \in CtPaths(enc) :
      \E i \in 1..Len(enc[p].data.recs), j \in 1..Len(enc[p].data.recs) :
        /\ i < j
        /\ LET recs == enc[p].data.recs
           IN  Modify(SetData(enc, p,
                          [enc[p].data EXCEPT !.recs =
                              [recs EXCEPT ![i] = recs[j], ![j] = recs[i]]]),
                      Tampering("swap", p, "chunk", i, j, <<>>))

\* record j of file q put in place of record i of another file p
SpliceChunk ==
    \E p \in CtPaths(enc), q \in CtPaths(enc) :
      \E i \in 1..Len(enc[p].data.recs), j \in 1..Len(enc[q].data.recs) :
        /\ p # q
        /\ Modify(SetData(enc, p,
                      [enc[p].data EXCEPT !.recs[i] = enc[q].data.recs[j]]),
                  Tampering("splice", p, "chunk", i, j, q))

\* a copy of record j of file q appended to file p, the header size field
\* rewritten to match
ReplayChunk ==
    \E p \in CtPaths(enc), q \in CtPaths(enc) :
      \E j \in 1..Len(enc[q].data.recs) :
        LET ct == enc[p].data
            rec == enc[q].data.recs[j]
        IN  Modify(SetData(enc, p,
                       [ct EXCEPT !.recs = Append(@, rec),
                                  !.size = @ + rec.blob.ptlen]),
                   Tampering("replay", p, "chunk", Len(ct.recs) + 1, j, q))

\* the ciphertext file of q written over the ciphertext file of p
ReplaceFile ==
    \E p \in CtPaths(enc), q \in CtPaths(enc) :
        /\ p # q
        /\ Modify(SetData(enc, p, enc[q].data),
                  Tampering("replace", p, "file", 0, 0, q))

\* two ciphertext files exchange their names
SwapFiles ==
    \E p \in CtPaths(enc), q \in CtPaths(enc) :
        /\ PathLess(p, q)
        /\ Modify(SetData(SetData(enc, p, enc[q].data), q, enc[p].data),
                  Tampering("rename", p, "file", 0, 0, q))

\* a ciphertext file renamed to a name the manifest does not know
RenameFile ==
    \E p \in CtPaths(enc) :
        LET q == <<NameB \o ENCRYPTED_EXTENSION>>
        IN  /\ ~Exists(enc, q)
            /\ Modify(Put(Remove(enc, p), q, enc[p]),
                      Tampering("rename", p, "file", 0, 0, q))

\* a ciphertext file, the manifest or the salt removed
RemoveFile ==
    \E p \in CtPaths(enc) \cup {MetadataPath, SaltPath} :
        /\ IsFile(enc, p)
        /\ Modify(Remove(enc, p), Tampering("remove", p, "file", 0, 0, <<>>))

\* a ciphertext file added under a name the manifest does not know
AddFile ==
    LET q == <<NameB \o ENCRYPTED_EXTENSION>>
        forged == [hdr |-> HeaderLen, version |-> VERSION,
                   nonce |-> [j \in 1..NONCE_SIZE |-> 0], size |-> 0,
                   recs |-> <<>>, tail |-> 0]
    IN  /\ ~Exists(enc, q)
        /\ \/ Modify(Put(enc, q, FileNode("umask", forged)),
                     Tampering("add", q, "file", 0, 0, <<>>))
           \/ \E p \in CtPaths(enc) :
                Modify(Put(enc, q, enc[p]), Tampering("add", q, "file", 0, 0, p))

Tamper ==
    \/ FlipHeaderBit \/ FlipPrefixBit \/ FlipChunkBit \/ FlipManifestBit
    \/ FlipSaltBit \/ ResizeSalt \/ TruncateChunks \/ TruncateBytes \/ SwapChunks
    \/ SpliceChunk \/ ReplayChunk \/ ReplaceFile \/ SwapFiles \/ RenameFile
    \/ RemoveFile \/ AddFile

Next == Encrypt \/ Tamper \/ Decrypt

Spec == Init /\ [][Next]_vars

\* ------------------------------------------------------------------------
\* The two services on their own, for every tree, password and setting of
\* the strength check
\* ------------------------------------------------------------------------
WriteInit ==
    /\ EngineIdle
    /\ src \in WideTrees
    /\ enc = NoFs
    /\ out = NoFs
    /\ phase = "plain"
    /\ password = ""
    /\ guess = ""
    /\ result = NoErr
    /\ seals = <<>>
    /\ writes = <<>>
    /\ enc0 = NoFs
    /\ tamper = NoTamper
    /\ strength \in BOOLEAN
    /\ calls = <<>>
    /\ key_derivation = DefaultObjects

\* EncryptService(verify_password_strength = strength).encrypt_folder(T, E, P)
\* into a fresh directory E
EncryptAny ==
    /\ phase = "plain"
    /\ \E pw \in AnyPasswords, salt \in Salts, nonce \in Nonces, meta_nonce \in Nonces :
          \E r \in {EncryptService(src, NoFs, pw, strength, salt,
                                    [p \in FilesOf(src) |-> nonce], meta_nonce)} :
              /\ enc' = r.fs
              /\ enc0' = r.fs
              /\ seals' = r.seals
              /\ writes' = r.writes
              /\ calls' = r.calls
              /\ result' = r.err
              /\ password' = pw
              /\ phase' = IF r.err = NoErr THEN "encrypted" ELSE "failed"
    /\ UNCHANGED <<src, out, guess, tamper, strength, key_derivation>>
    /\ UNCHANGED engine_vars

\* DecryptService.decrypt_folder(E, D, P') into a fresh directory D, where
\* the process may change every mode
DecryptAny ==
    /\ phase = "encrypted"
    /\ \E pw \in AnyPasswords :
          \E r \in {DecryptService(enc, NoFs, pw, {})} :
              /\ out' = r.fs
              /\ calls' = r.calls
              /\ result' = r.err
              /\ guess' = pw
              /\ phase' = "decrypted"
    /\ UNCHANGED <<src, enc, password, seals, writes, enc0, tamper, strength, key_derivation>>
    /\ UNCHANGED engine_vars

WriteNext == EncryptAny \/ DecryptAny

WriteSpec == WriteInit /\ [][WriteNext]_vars

\* ------------------------------------------------------------------------
\* Manifests that authenticate but were not written by _save_metadata: a
\* holder of the key (another implementation, an older version, a faulty
\* run) seals a document of its own and puts it in place of the manifest
\* ------------------------------------------------------------------------
\* relative_path values: "b" and the ones a manifest must not hold: "",
\* "/b", "../b", "b//c", ".salt", ".folder_crypto_metadata.enc"
GoodCraftPath == NameB
BadCraftPaths ==
    {<<>>, <<47>> \o NameB, UpPart \o <<47>> \o NameB, NameB \o <<47, 47, 99>>,
     SALT_FILENAME, METADATA_FILENAME}

DirEntry(relative_path, original_size) ==
    FileMetadata(relative_path, original_size, 0, TRUE, "none")

\* the documents made from the manifest document doc, by kind of change
CraftedDocs(doc) ==
    [kind \in {"valid", "path", "dir_size", "duplicate", "version", "no_version",
               "missing_field", "unknown_field"} |->
        CASE kind = "valid" ->
               {[doc EXCEPT !.files = Append(@, DirEntry(GoodCraftPath, 0))]}
          [] kind = "path" ->
               {[doc EXCEPT !.files = Append(@, DirEntry(s, 0))] : s \in BadCraftPaths}
          [] kind = "dir_size" ->
               {[doc EXCEPT !.files = Append(@, DirEntry(GoodCraftPath, 5))]}
          [] kind = "duplicate" ->
               IF doc.files = <<>> THEN {}
               ELSE {[doc EXCEPT !.files = Append(@, doc.files[1])]}
          [] kind = "version" -> {[doc EXCEPT !.version = 2]}
          [] kind = "no_version" -> {[files |-> doc.files]}
          [] kind = "missing_field" ->
               {[doc EXCEPT !.files = Append(@,
                    [relative_path |-> GoodCraftPath, original_size |-> 0,
                     encrypted_size |-> 0])]}
          [] kind = "unknown_field" ->
               {[doc EXCEPT !.files = Append(@,
                    [relative_path |-> GoodCraftPath, original_size |-> 0,
                     encrypted_size |-> 0, is_directory |-> TRUE,
                     permissions |-> "none", owner |-> 0])]}]

CraftManifest ==
    /\ phase = "encrypted"
    /\ IsFile(enc, MetadataPath)
    /\ LET f == enc[MetadataPath].data
           made == CraftedDocs(f.blob.pt)
       IN  \E kind \in DOMAIN made : \E doc \in made[kind] :
             LET blob == Seal(f.blob.key, f.nonce, doc, Len(doc.files), METADATA_AD)
             IN  /\ enc' = SetData(enc, MetadataPath, [nonce |-> f.nonce, blob |-> blob])
                 /\ tamper' = Tampering("craft", MetadataPath, kind, 0, 0, <<>>)
    /\ phase' = "tampered"
    /\ UNCHANGED <<src, out, password, guess, result, seals, writes, enc0, strength, key_derivation, calls>>
    /\ UNCHANGED engine_vars

ManifestNext == Encrypt \/ CraftManifest \/ Decrypt

ManifestSpec == Init /\ [][ManifestNext]_vars

\* ------------------------------------------------------------------------
\* decrypt_folder where os.chmod fails on some paths of the output
\* ------------------------------------------------------------------------
\* the paths of the output on which os.chmod may raise
DeniedSets == SUBSET (TreePaths \cup {<<GoodCraftPath>>})

\* DecryptService.decrypt_folder(E, D, P') into a fresh directory D
DecryptDenied ==
    /\ phase \in {"encrypted", "tampered"}
    /\ \E pw \in DecPasswords, denied \in DeniedSets :
          \E r \in {DecryptService(enc, NoFs, pw, denied)} :
              /\ out' = r.fs
              /\ calls' = r.calls
              /\ result' = r.err
              /\ guess' = pw
              /\ phase' = "decrypted"
    /\ UNCHANGED <<src, enc, password, seals, writes, enc0, tamper, strength, key_derivation>>
    /\ UNCHANGED engine_vars

RestoreNext == Encrypt \/ CraftManifest \/ DecryptDenied

RestoreSpec == Init /\ [][RestoreNext]_vars

\* ------------------------------------------------------------------------
\* CryptoEngine on its own: encrypt_file of an n-byte stream, a change of
\* the encrypted stream, decrypt_file
\* ------------------------------------------------------------------------
\* sizes around the chunk boundaries, up to MaxChunks chunks
PlainSizes ==
    {13} \cup {n \in {k * CHUNK_SIZE + d : k \in 0..MaxChunks, d \in {-1, 0, 1}} :
                 n >= 0 /\ n <= MaxChunks * CHUNK_SIZE}

EngineAds == {<<>>, METADATA_AD, FileAd(<<NameA>>)}

EngineSalt == CHOOSE salt \in Salts : TRUE
EngineKey == DeriveKeyPbkdf2("CorrectHorseBattery", EngineSalt)
OtherKey == DeriveKeyPbkdf2("correcthorsebattery", EngineSalt)

EngineInit ==
    /\ src = TreeOf({}, << >>)
    /\ enc = NoFs
    /\ out = NoFs
    /\ phase = "engine"
    /\ password = ""
    /\ guess = ""
    /\ result = NoErr
    /\ seals = <<>>
    /\ writes = <<>>
    /\ enc0 = NoFs
    /\ tamper = NoTamper
    /\ strength = TRUE
    /\ calls = <<>>
    /\ key_derivation = DefaultObjects
    /\ plain \in PlainSizes
    /\ ad0 \in EngineAds
    /\ ect = NoStream
    /\ alter = NoAlter
    /\ opened = NotOpened
    /\ epc = "plain"
    /\ kdf = NoKdf
    /\ chunk_nonce = NoNonceCall

\* CryptoEngine(key).encrypt_file(input, output, ad0)
EncryptFileCall ==
    /\ epc = "plain"
    /\ \E nonce \in Nonces :
         ect' = EncryptFile(<<NameA>>, plain, EngineKey, nonce, ad0)
    /\ epc' = "sealed"
    /\ UNCHANGED <<plain, ad0, alter, opened, kdf, chunk_nonce>>
    /\ UNCHANGED tree_vars

\* the last n chunk records deleted, the header left untouched
DropChunks ==
    /\ epc = "sealed"
    /\ \E n \in 1..Len(ect.recs) :
         /\ ect' = [ect EXCEPT !.recs = SubSeq(@, 1, Len(@) - n)]
         /\ alter' = [kind |-> "drop", n |-> n]
    /\ epc' = "altered"
    /\ UNCHANGED <<plain, ad0, opened, kdf, chunk_nonce>>
    /\ UNCHANGED tree_vars

\* one more chunk of m plaintext bytes sealed by a holder of the key for the
\* next chunk index and appended, the header left untouched
AppendSealedChunk ==
    /\ epc = "sealed"
    /\ \E m \in {0, 1, CHUNK_SIZE} :
         LET chunk_number == Len(ect.recs)
             blob == Seal(EngineKey, DeriveChunkNonce(ect.nonce, chunk_number),
                          WholeFile(<<NameB>>, m), m, ChunkAd(ad0, chunk_number))
         IN  /\ ect' = [ect EXCEPT !.recs = Append(@, [len |-> BlobLen(blob),
                                                       blob |-> blob])]
             /\ alter' = [kind |-> "append", n |-> m]
    /\ epc' = "altered"
    /\ UNCHANGED <<plain, ad0, opened, kdf, chunk_nonce>>
    /\ UNCHANGED tree_vars

\* the plaintext-size field of the header rewritten
RewriteSize ==
    /\ epc = "sealed"
    /\ \E v \in {0, 1, CHUNK_SIZE} :
         /\ v # ect.size
         /\ ect' = [ect EXCEPT !.size = v]
         /\ alter' = [kind |-> "size", n |-> v]
    /\ epc' = "altered"
    /\ UNCHANGED <<plain, ad0, opened, kdf, chunk_nonce>>
    /\ UNCHANGED tree_vars

\* the version byte of the header rewritten
RewriteVersion ==
    /\ epc = "sealed"
    /\ \E v \in {0, 2, 255} :
         /\ ect' = [ect EXCEPT !.version = v]
         /\ alter' = [kind |-> "version", n |-> v]
    /\ epc' = "altered"
    /\ UNCHANGED <<plain, ad0, opened, kdf, chunk_nonce>>
    /\ UNCHANGED tree_vars

\* the stream cut inside the header: h bytes of it are left
CutHeader ==
    /\ epc = "sealed"
    /\ \E h \in {0, 1, NONCE_SIZE, 1 + NONCE_SIZE, HeaderLen - 1} :
         /\ ect' = [ect EXCEPT !.hdr = h, !.recs = <<>>]
         /\ alter' = [kind |-> "cut_header", n |-> h]
    /\ epc' = "altered"
    /\ UNCHANGED <<plain, ad0, opened, kdf, chunk_nonce>>
    /\ UNCHANGED tree_vars

\* the stream cut inside the length prefix of record i: t of its 4 bytes are left
CutPrefix ==
    /\ epc = "sealed"
    /\ \E i \in 1..Len(ect.recs), t \in 1..3 :
         /\ ect' = [ect EXCEPT !.recs = SubSeq(@, 1, i - 1), !.tail = t]
         /\ alter' = [kind |-> "cut_prefix", n |-> t, i |-> i]
    /\ epc' = "altered"
    /\ UNCHANGED <<plain, ad0, opened, kdf, chunk_nonce>>
    /\ UNCHANGED tree_vars

\* the stream cut inside the sealed chunk of record i: its last c bytes (one,
\* or all of them) are gone
CutChunk ==
    /\ epc = "sealed"
    /\ \E i \in 1..Len(ect.recs) :
         \E c \in {1, BlobLen(ect.recs[i].blob)} :
           /\ ect' = [ect EXCEPT !.recs = [SubSeq(@, 1, i) EXCEPT ![i].blob.cut = c]]
           /\ alter' = [kind |-> "cut_chunk", n |-> c, i |-> i]
    /\ epc' = "altered"
    /\ UNCHANGED <<plain, ad0, opened, kdf, chunk_nonce>>
    /\ UNCHANGED tree_vars

\* the u32 length prefix of record i rewritten to v, the bytes after it left
\* as they were
RewritePrefix ==
    /\ epc = "sealed"
    /\ \E i \in 1..Len(ect.recs) :
         \E v \in {0, TAG_SIZE, CHUNK_SIZE + TAG_SIZE + 1, 2 * (CHUNK_SIZE + TAG_SIZE)} :
           /\ v # ect.recs[i].len
           /\ ect' = [ect EXCEPT !.recs[i].len = v]
           /\ alter' = [kind |-> "prefix", n |-> v, i |-> i]
    /\ epc' = "altered"
    /\ UNCHANGED <<plain, ad0, opened, kdf, chunk_nonce>>
    /\ UNCHANGED tree_vars

\* CryptoEngine(key).decrypt_file(input, output, ad)
DecryptFileCall ==
    /\ epc \in {"sealed", "altered"}
    /\ \E key \in {EngineKey, OtherKey}, ad \in EngineAds :
         LET r == DecryptFile(ect, key, ad)
         IN  opened' = [key |-> key, ad |-> ad, err |-> r.err, out |-> r.out,
                        chunks |-> r.chunks]
    /\ epc' = "opened"
    /\ UNCHANGED <<plain, ad0, ect, alter, kdf, chunk_nonce>>
    /\ UNCHANGED tree_vars

EngineNext ==
    \/ EncryptFileCall \/ DropChunks \/ AppendSealedChunk \/ RewriteSize
    \/ RewriteVersion \/ CutHeader \/ CutPrefix \/ CutChunk \/ RewritePrefix
    \/ DecryptFileCall

EngineSpec == EngineInit /\ [][EngineNext]_vars

\* ------------------------------------------------------------------------
\* The output sink of decrypt_file while it runs: decrypt_file statement by
\* statement on a stream of its own, and the services on a tree
\* ------------------------------------------------------------------------
SinkInit == Init \/ EngineInit

\* decrypt_file is called and reads the header
DecryptFileOpen ==
    /\ epc \in {"sealed", "altered"}
    /\ \E key \in {EngineKey, OtherKey}, ad \in EngineAds :
         \E call \in {DecryptFileStart(ect, key, ad)} :
            /\ opened' = call
            /\ epc' = IF call.pc = "loop" THEN "opening" ELSE "opened"
    /\ UNCHANGED <<plain, ad0, ect, alter, kdf, chunk_nonce>>
    /\ UNCHANGED tree_vars

\* decrypt_file goes once through its loop, or leaves it
DecryptFileChunk ==
    /\ epc = "opening"
    /\ \E call \in {DecryptFileStep(ect, opened)} :
         /\ opened' = call
         /\ epc' = IF call.pc = "loop" THEN "opening" ELSE "opened"
    /\ UNCHANGED <<plain, ad0, ect, alter, kdf, chunk_nonce>>
    /\ UNCHANGED tree_vars

SinkNext ==
    \/ Encrypt \/ Tamper \/ Decrypt
    \/ EncryptFileCall \/ DropChunks \/ AppendSealedChunk \/ RewriteSize
    \/ RewriteVersion \/ CutHeader \/ CutPrefix \/ CutChunk \/ RewritePrefix
    \/ DecryptFileOpen \/ DecryptFileChunk

SinkSpec == SinkInit /\ [][SinkNext]_vars

\* ------------------------------------------------------------------------
\* KeyDerivation on its own: derive_key(password, salt), called twice
\* ------------------------------------------------------------------------
KdfPasswords == {"", "short", "CorrectHorseBattery", "correcthorsebattery"}

\* salts of 0, 1, 5 (b"short"), 16, 31, 32 and 33 bytes
KdfSalts ==
    {[j \in 1..n |-> IF j = 1 THEN v ELSE 0] :
        n \in {0, 1, 5, SALT_SIZE \div 2, SALT_SIZE - 1, SALT_SIZE, SALT_SIZE + 1},
        v \in {7, 8}}

KdfInit ==
    /\ src = TreeOf({}, << >>)
    /\ enc = NoFs
    /\ out = NoFs
    /\ phase = "kdf"
    /\ password = ""
    /\ guess = ""
    /\ result = NoErr
    /\ seals = <<>>
    /\ writes = <<>>
    /\ enc0 = NoFs
    /\ tamper = NoTamper
    /\ strength = TRUE
    /\ calls = <<>>
    /\ key_derivation = DefaultObjects
    /\ plain = 0
    /\ ad0 = <<>>
    /\ ect = NoStream
    /\ alter = NoAlter
    /\ opened = NotOpened
    /\ epc = "idle"
    /\ chunk_nonce = NoNonceCall
    /\ \E pw \in KdfPasswords, salt \in KdfSalts :
         kdf = [NoKdf EXCEPT !.password = pw, !.salt = salt, !.pc = "args"]

\* KeyDerivation().derive_key(password, salt)
DeriveKeyCall ==
    /\ kdf.pc = "args"
    /\ LET r == DeriveKey(kdf.password, kdf.salt)
       IN  kdf' = [kdf EXCEPT !.err = r.err, !.key = r.key, !.pc = "derived"]
    /\ UNCHANGED <<plain, ad0, ect, alter, opened, epc, chunk_nonce>>
    /\ UNCHANGED tree_vars

\* the same call once more, on the same object
DeriveKeyAgain ==
    /\ kdf.pc = "derived"
    /\ LET r == DeriveKey(kdf.password, kdf.salt)
       IN  kdf' = [kdf EXCEPT !.err2 = r.err, !.key2 = r.key, !.pc = "again"]
    /\ UNCHANGED <<plain, ad0, ect, alter, opened, epc, chunk_nonce>>
    /\ UNCHANGED tree_vars

KdfNext == DeriveKeyCall \/ DeriveKeyAgain

KdfSpec == KdfInit /\ [][KdfNext]_vars

\* ------------------------------------------------------------------------
\* KeyDerivation on its own: verify_password_strength(password)
\* ------------------------------------------------------------------------
\* "A", "a", "0", "!" and a letter without case
StrengthChars == <<65, 97, 48, 33, CaselessLetter>>

\* lengths around the two thresholds
StrengthLengths ==
    {0, 1, MIN_PASSWORD_LEN - 1, MIN_PASSWORD_LEN, STRONG_PASSWORD_LEN - 1,
     STRONG_PASSWORD_LEN, STRONG_PASSWORD_LEN + 1}

\* the r-th smallest element of a set of numbers
Ranked(S, r) == CHOOSE x \in S : Cardinality({y \in S : y < x}) = r - 1

\* the passwords of every length above made of every non-empty choice of
\* the characters above, repeated in turn
StrengthPasswords ==
    {[i \in 1..n |-> StrengthChars[Ranked(S, ((i - 1) % Cardinality(S)) + 1)]] :
        n \in StrengthLengths, S \in (SUBSET (1..Len(StrengthChars))) \ {{}}}

StrengthInit ==
    /\ src = TreeOf({}, << >>)
    /\ enc = NoFs
    /\ out = NoFs
    /\ phase = "strength"
    /\ password = ""
    /\ guess = ""
    /\ result = NoErr
    /\ seals = <<>>
    /\ writes = <<>>
    /\ enc0 = NoFs
    /\ tamper = NoTamper
    /\ strength = TRUE
    /\ calls = <<>>
    /\ key_derivation = DefaultObjects
    /\ plain = 0
    /\ ad0 = <<>>
    /\ ect = NoStream
    /\ alter = NoAlter
    /\ opened = NotOpened
    /\ epc = "idle"
    /\ chunk_nonce = NoNonceCall
    /\ \E pw \in StrengthPasswords :
         kdf = [NoKdf EXCEPT !.password = pw, !.pc = "password"]

\* KeyDerivation().verify_password_strength(password)
VerifyPasswordStrengthCall ==
    /\ kdf.pc = "password"
    /\ LET r == VerifyPasswordStrength(kdf.password)
       IN  kdf' = [kdf EXCEPT !.is_valid = r.is_valid, !.message = r.message,
                              !.pc = "scored"]
    /\ UNCHANGED <<plain, ad0, ect, alter, opened, epc, chunk_nonce>>
    /\ UNCHANGED tree_vars

StrengthNext == VerifyPasswordStrengthCall

StrengthSpec == StrengthInit /\ [][StrengthNext]_vars

\* ------------------------------------------------------------------------
\* Successive encrypt_folder runs into the same output directory
\* ------------------------------------------------------------------------
\* passwords of the runs after the first: the first run's and another one
RerunPasswords == EncPasswords \cup {"Tr0ub4dor&3xtra"}

\* the trees of the runs: every shape over the paths of the model, files
\* of 13 bytes
RerunTrees == TreesOver(TreePaths, {13})

RerunInit == Init /\ src \in RerunTrees

\* EncryptService.encrypt_folder(T', E, P') into the directory E that
\* earlier runs have filled
EncryptAgain ==
    /\ phase = "encrypted"
    /\ \E tree \in RerunTrees, pw \in RerunPasswords, salt \in Salts, nonce \in Nonces :
          \E r \in {EncryptService(tree, enc, pw, strength, salt,
                                   [p \in FilesOf(tree) |-> nonce], nonce)} :
              /\ src' = tree
              /\ enc' = r.fs
              /\ enc0' = r.fs
              /\ seals' = r.seals
              /\ writes' = r.writes
              /\ calls' = r.calls
              /\ result' = r.err
              /\ password' = pw
              /\ phase' = IF r.err = NoErr THEN "encrypted" ELSE "failed"
    /\ UNCHANGED <<out, guess, tamper, strength, key_derivation>>
    /\ UNCHANGED engine_vars

\* DecryptService.decrypt_folder(E, D, P_last) into a fresh directory D
DecryptLast ==
    /\ phase = "encrypted"
    /\ \E r \in {DecryptService(enc, NoFs, password, {})} :
          /\ out' = r.fs
          /\ calls' = r.calls
          /\ result' = r.err
          /\ guess' = password
          /\ phase' = "decrypted"
    /\ UNCHANGED <<src, enc, password, seals, writes, enc0, tamper, strength, key_derivation>>
    /\ UNCHANGED engine_vars

RerunNext == Encrypt \/ EncryptAgain \/ DecryptLast

RerunSpec == RerunInit /\ [][RerunNext]_vars

\* ------------------------------------------------------------------------
\* The choice of the KDF: services constructed with and without use_argon2,
\* in a process where argon2 can be imported or not
\* ------------------------------------------------------------------------
KeyDerivationObjects ==
    {KeyDerivationInit(use_argon2, importable) :
        use_argon2 \in BOOLEAN, importable \in BOOLEAN}

\* source trees: empty, one file, a file in a directory
ChoiceTrees == TreesOver({<<NameA>>, <<NameAEnc>>, <<NameAEnc, NameB>>}, {0, 13})

ChoiceInit ==
    /\ EngineIdle
    /\ src \in ChoiceTrees
    /\ enc = NoFs
    /\ out = NoFs
    /\ phase = "plain"
    /\ password = ""
    /\ guess = ""
    /\ result = NoErr
    /\ seals = <<>>
    /\ writes = <<>>
    /\ enc0 = NoFs
    /\ tamper = NoTamper
    /\ strength = TRUE
    /\ calls = <<>>
    /\ key_derivation \in [enc : KeyDerivationObjects, dec : KeyDerivationObjects]

\* EncryptService(use_argon2).encrypt_folder(T, E, P) into a fresh E
EncryptChosen ==
    /\ phase = "plain"
    /\ \E pw \in EncPasswords, salt \in Salts, nonce \in Nonces :
          \E r \in {EncryptServiceOf(key_derivation.enc, src, NoFs, pw, strength, salt,
                                     [p \in FilesOf(src) |-> nonce], nonce)} :
              /\ enc' = r.fs
              /\ enc0' = r.fs
              /\ seals' = r.seals
              /\ writes' = r.writes
              /\ calls' = r.calls
              /\ result' = r.err
              /\ password' = pw
              /\ phase' = IF r.err = NoErr THEN "encrypted" ELSE "failed"
    /\ UNCHANGED <<src, out, guess, tamper, strength, key_derivation>>
    /\ UNCHANGED engine_vars

\* DecryptService(use_argon2).decrypt_folder(E, D, P') into a fresh D
DecryptChosen ==
    /\ phase = "encrypted"
    /\ \E pw \in DecPasswords :
          \E r \in {DecryptServiceOf(key_derivation.dec, enc, NoFs, pw, {})} :
              /\ out' = r.fs
              /\ calls' = r.calls
              /\ result' = r.err
              /\ guess' = pw
              /\ phase' = "decrypted"
    /\ UNCHANGED <<src, enc, password, seals, writes, enc0, tamper, strength, key_derivation>>
    /\ UNCHANGED engine_vars

ChoiceNext == EncryptChosen \/ DecryptChosen

ChoiceSpec == ChoiceInit /\ [][ChoiceNext]_vars

\* ------------------------------------------------------------------------
\* CryptoEngine._derive_chunk_nonce on its own
\* ------------------------------------------------------------------------
\* base nonces: zero, the bytes 1..12, all ones, and one with the top bit
\* of each of the low four counter bytes set
NonceBases ==
    {[j \in 1..NONCE_SIZE |-> 0], [j \in 1..NONCE_SIZE |-> j],
     [j \in 1..NONCE_SIZE |-> 255],
     [j \in 1..NONCE_SIZE |-> IF j \in 5..7 THEN 128 + j ELSE IF j = 8 THEN 127 ELSE 0]}

\* chunk indices: 0, one bit, all bits below one, and one bit together
\* with the lowest bit of a higher byte
NonceIndices ==
    {0} \cup {Pow2(a) : a \in 0..MaxIndexBit}
        \cup {Pow2(a) - 1 : a \in 0..MaxIndexBit}
        \cup {Pow2(a) + Pow2(8 * b) : a \in 0..MaxIndexBit, b \in 1..(MaxIndexBit \div 8)}

NonceInit ==
    /\ src = TreeOf({}, << >>)
    /\ enc = NoFs
    /\ out = NoFs
    /\ phase = "nonce"
    /\ password = ""
    /\ guess = ""
    /\ result = NoErr
    /\ seals = <<>>
    /\ writes = <<>>
    /\ enc0 = NoFs
    /\ tamper = NoTamper
    /\ strength = TRUE
    /\ calls = <<>>
    /\ key_derivation = DefaultObjects
    /\ plain = 0
    /\ ad0 = <<>>
    /\ ect = NoStream
    /\ alter = NoAlter
    /\ opened = NotOpened
    /\ epc = "idle"
    /\ kdf = NoKdf
    /\ \E b \in NonceBases, i \in NonceIndices :
         chunk_nonce = [NoNonceCall EXCEPT !.base = b, !.index = i, !.pc = "args"]

\* CryptoEngine(key)._derive_chunk_nonce(base_nonce, chunk_number)
DeriveChunkNonceCall ==
    /\ chunk_nonce.pc = "args"
    /\ chunk_nonce' = [chunk_nonce EXCEPT
                          !.out = DeriveChunkNonce(chunk_nonce.base, chunk_nonce.index),
                          !.pc = "derived"]
    /\ UNCHANGED <<plain, ad0, ect, alter, opened, epc, kdf>>
    /\ UNCHANGED tree_vars

NonceNext == DeriveChunkNonceCall

NonceSpec == NonceInit /\ [][NonceNext]_vars

\* ------------------------------------------------------------------------
\* Properties
\* ------------------------------------------------------------------------
\* the key of the encrypt_folder run
KeyOfRun == DeriveKeyPbkdf2(password, enc0[SaltPath].data)

\* same relative directory and file paths, every file's bytes identical
SameTree(a, b) ==
    /\ DOMAIN a = DOMAIN b
    /\ \A p \in DOMAIN a :
         /\ a[p].kind = b[p].kind
         /\ a[p].kind = "file" => a[p].data = b[p].data

\* C1: for every source tree and accepted password, encrypt_folder into a
\* fresh directory succeeds, and decrypt_folder of its output with the same
\* password succeeds and yields the same directories, files and bytes.
RoundTrip ==
    /\ phase = "failed" => result.cls = "InvalidPasswordError"
    /\ (phase = "decrypted" /\ tamper = NoTamper /\ guess = password)
           => (result = NoErr /\ SameTree(out, src))

\* C2: whatever was done to the encrypted directory by a party without the
\* key, a decrypt_folder that returns without error has produced a tree
\* byte-identical to the source tree.
SuccessIsIntegral ==
    (phase = "decrypted" /\ result = NoErr) => SameTree(out, src)

SuccessIsIntegralWitness ==
    /\ phase = "decrypted"
    /\ tamper.kind \in {"add", "flip"}
    /\ result = NoErr
    /\ \E p \in FilesOf(src) : ByteLen(src[p].data) > CHUNK_SIZE

\* C3: after a single bit of a ciphertext file, of the manifest or of the
\* salt has been flipped, decrypt_folder raises.
BitFlipDetected ==
    (phase = "decrypted" /\ tamper.kind = "flip") => result # NoErr

\* C4: decrypt_folder of an untouched encrypted directory with a password
\* other than the one it was encrypted with raises DecryptionError, also
\* when the tree is empty.
WrongPasswordRejected ==
    (phase = "decrypted" /\ tamper = NoTamper /\ guess # password)
        => result.cls = "DecryptionError"

WrongPasswordRejectedWitness ==
    /\ phase = "decrypted"
    /\ tamper = NoTamper
    /\ guess = "correcthorsebattery"
    /\ password = "CorrectHorseBattery"
    /\ DOMAIN src = {<<>>}
    /\ result = Err("DecryptionError", "auth")

\* C5: an AEAD authentication failure, on the manifest or on a chunk of a
\* tree file, reaches the caller of DecryptService.decrypt_folder as a
\* DecryptionError: no layer turns it into another class of error.
AuthFailureKeepsKind ==
    (phase = "decrypted" /\ result.why = "auth") => result.cls = "DecryptionError"

\* C6: the associated data of a chunk is injective in (path, index), and
\* decryption fails authentication when two chunk records of a file are
\* exchanged, when a chunk record or a whole ciphertext file is put in the
\* place of another file's, and when decrypt_file is given associated data
\* other than the data used at encryption.
ChunkBinding ==
    /\ \A p \in TreePaths, q \in TreePaths, i \in 0..2, j \in 0..2 :
         ChunkAd(FileAd(p), i) = ChunkAd(FileAd(q), j) => (p = q /\ i = j)
    /\ (phase = "decrypted" /\ guess = password
           /\ tamper.kind \in {"swap", "splice", "replace"})
         => result.why = "auth"
    /\ phase = "encrypted" =>
         \A p \in FilesOf(src) :
           \A ad \in {<<>>} \cup {FileAd(q) : q \in TreePaths \ {p}} :
             DecryptFile(enc[EncryptedPath(p)].data, KeyOfRun, ad).err.why = "auth"

CiphertextLayout ==
    epc = "sealed" =>
        LET chunks == (plain + 65535) \div 65536
        IN  /\ CtSize(ect) = 21 + chunks * (4 + 16) + plain
            /\ ect.hdr = 21
            /\ ect.version = 1
            /\ Len(ect.nonce) = 12
            /\ ect.size = plain
            /\ ect.tail = 0
            /\ Len(ect.recs) = chunks
            /\ \A i \in 1..Len(ect.recs) :
                 /\ ect.recs[i].len = ect.recs[i].blob.ptlen + 16
                 /\ ect.recs[i].blob.ptlen > 0
                 /\ ect.recs[i].blob.ptlen <= 65536
                 /\ i < Len(ect.recs) => ect.recs[i].blob.ptlen = 65536

CiphertextLayoutWitness ==
    /\ epc = "sealed"
    /\ plain = 2 * CHUNK_SIZE
    /\ Len(ect.recs) = 2

\* C9: decrypt_folder compares the size of every decrypted file with the
\* manifest entry; a ciphertext file whose trailing chunk records were
\* removed and whose header size was rewritten to match is rejected with a
\* size mismatch.
ManifestSizeChecked ==
    phase = "decrypted" =>
        /\ result = NoErr =>
             \A p \in FilesOf(src) :
                 ByteLen(out[p].data) = enc0[MetadataPath].data.blob.pt.files[
                     CHOOSE k \in 1..Len(enc0[MetadataPath].data.blob.pt.files) :
                        enc0[MetadataPath].data.blob.pt.files[k].relative_path
                            = PathStr(p)].original_size
        /\ (tamper.kind = "truncate" /\ tamper.field = "fixed" /\ guess = password)
             => result = Err("FileProcessingError", "size_mismatch")

ManifestSizeCheckedWitness ==
    /\ phase = "decrypted"
    /\ tamper.kind = "truncate"
    /\ tamper.field = "fixed"
    /\ guess = password
    /\ result = Err("FileProcessingError", "size_mismatch")

\* C10 as stated: decrypt_file accepts a stream only if the decrypted chunk
\* lengths add up to the size in the header; deleting trailing records or
\* appending a validly sealed chunk is rejected.
TrailingChangeRejected ==
    epc = "opened" =>
        /\ opened.err = NoErr => PlainLen(ect.recs, Len(ect.recs)) = ect.size
        /\ alter.kind \in {"drop", "append"} => opened.err # NoErr

\* C10 amended: as stated, for an appended chunk of at least one plaintext
\* byte; with the key and associated data of encryption the error is the
\* size mismatch.
TrailingBytesRejected ==
    epc = "opened" =>
        /\ opened.err = NoErr => PlainLen(ect.recs, Len(ect.recs)) = ect.size
        /\ (alter.kind = "drop" \/ (alter.kind = "append" /\ alter.n > 0)) =>
             /\ opened.err # NoErr
             /\ (opened.key = EngineKey /\ opened.ad = ad0)
                   => opened.err = Err("DecryptionError", "size_mismatch")

TrailingBytesRejectedWitness ==
    /\ epc = "opened"
    /\ alter.kind = "append"
    /\ alter.n > 0
    /\ opened.key = EngineKey
    /\ opened.ad = ad0
    /\ opened.chunks = Len(ect.recs)
    /\ opened.err = Err("DecryptionError", "size_mismatch")

\* C11: decrypt_file checks the header before any chunk is processed and
\* before any plaintext is written; a first byte other than 1 is rejected
\* with the unsupported-version kind of error (UnsupportedVersionError), an
\* input shorter than the 21-byte header with another kind.
HeaderErrorKinds ==
    epc = "opened" =>
        /\ (ect.hdr < HeaderLen \/ ect.version # VERSION) =>
              (opened.err # NoErr /\ opened.chunks = 0 /\ opened.out = <<>>)
        /\ (ect.hdr >= 1 /\ ect.version # VERSION) =>
              opened.err.cls = "UnsupportedVersionError"
        /\ (ect.hdr < HeaderLen /\ (ect.hdr = 0 \/ ect.version = VERSION)) =>
              opened.err.cls \notin {"none", "UnsupportedVersionError"}

\* C12: a chunk record whose length prefix is 0 or greater than 65536 + 16
\* is rejected by decrypt_file as malformed on the prefix alone: the error is
\* neither the authentication failure of an attempted AEAD opening nor the
\* short read of an attempted read of that many bytes.
PrefixRangeChecked ==
    (epc = "opened" /\ alter.kind = "prefix" /\ opened.key = EngineKey
        /\ opened.ad = ad0 /\ (alter.n = 0 \/ alter.n > CHUNK_SIZE + TAG_SIZE))
      => /\ opened.err.cls = "DecryptionError"
         /\ opened.err.why \notin {"auth", "chunk_data"}

\* C13: a record stream that ends after 1 to 3 bytes of a length prefix, or
\* after fewer bytes than a length prefix announces, is rejected by
\* decrypt_file: always with an error and with nothing of the incomplete
\* chunk written; with the malformed-stream error (corrupted chunk size /
\* corrupted chunk data) when the records before the cut open.
TruncatedStreamRejected ==
    (epc = "opened" /\ alter.kind \in {"cut_prefix", "cut_chunk"}) =>
        /\ opened.err.cls = "DecryptionError"
        /\ opened.chunks < alter.i
        /\ ByteLen(opened.out) = PlainLen(ect.recs, opened.chunks)
        /\ ((opened.key = EngineKey /\ opened.ad = ad0) \/ alter.i = 1) =>
              /\ opened.chunks = alter.i - 1
              /\ opened.err.why =
                   (IF alter.kind = "cut_prefix" THEN "chunk_size" ELSE "chunk_data")

TruncatedStreamRejectedWitness ==
    /\ epc = "opened"
    /\ alter.kind = "cut_chunk"
    /\ alter.i = 2
    /\ alter.n = 1
    /\ opened.key = EngineKey
    /\ opened.ad = ad0
    /\ opened.chunks = 1
    /\ ByteLen(opened.out) = CHUNK_SIZE
    /\ opened.err = Err("DecryptionError", "chunk_data")

\* the manifest document that decrypt_folder was given
ManifestDoc == enc[MetadataPath].data.blob.pt

\* an entry list that breaks the rules of the manifest: a relative_path that
\* is empty, absolute, holds ".." or an empty component, is a reserved name
\* or occurs twice, or a directory entry with a size
RECURSIVE HasEmptyPart(_)
HasEmptyPart(s) ==
    /\ Len(s) >= 2
    /\ (s[1] = 47 /\ s[2] = 47) \/ HasEmptyPart(Tail(s))

BadEntries(files) ==
    \/ \E i \in 1..Len(files) :
          LET m == files[i]
          IN  \/ m.relative_path = <<>>
              \/ ~InsideRoot(ParsePath(m.relative_path))
              \/ HasEmptyPart(m.relative_path)
              \/ m.relative_path \in {SALT_FILENAME, METADATA_FILENAME}
              \/ m.is_directory /\ m.original_size # 0
    \/ \E i \in 1..Len(files), j \in 1..Len(files) :
          i # j /\ files[i].relative_path = files[j].relative_path

\* C14: decrypt_folder validates every manifest entry before it writes:
\* a manifest with a bad relative_path, a duplicate path or a directory
\* entry with a size makes it fail with nothing created, and nothing is
\* ever created or written outside the output root.
ManifestEntriesValidated ==
    (phase = "decrypted" /\ tamper.kind = "craft" /\ guess = password) =>
        /\ (tamper.field \in {"path", "dir_size", "duplicate"}
               /\ BadEntries(ManifestDoc.files))
             => (result # NoErr /\ out = NoFs)
        /\ \A p \in DOMAIN out : InsideRoot(p)

\* the outcome of _load_metadata in the decrypt_folder run
LoadedByRun == LoadMetadata(enc, DeriveKey(guess, enc[SaltPath].data).key)

ManifestOpens ==
    AeadOpens(enc[MetadataPath].data.blob, DeriveKey(guess, enc[SaltPath].data).key,
              enc[MetadataPath].data.nonce, METADATA_AD)

\* C15: _load_metadata keeps the two kinds of failure apart: when the AEAD
\* opening of the manifest fails it raises the error of a wrong password or
\* tampering (DecryptionError), and it raises InvalidMetadataError only when
\* the blob opens and its content breaks the schema.
ManifestErrorKinds ==
    (phase = "decrypted" /\ guess # "" /\ IsFile(enc, SaltPath)
        /\ Len(enc[SaltPath].data) = SALT_SIZE /\ IsFile(enc, MetadataPath)) =>
        /\ ~ManifestOpens => LoadedByRun.err.cls = "DecryptionError"
        /\ LoadedByRun.err.cls = "InvalidMetadataError" => ManifestOpens

\* the entries of the manifest the encrypt_folder run wrote
WrittenEntries == enc0[MetadataPath].data.blob.pt.files

\* C16: in the manifest written by encrypt_folder every directory entry
\* comes before every file entry, each group is in ascending path order,
\* every directory entry comes after the entry of its parent, directory
\* entries have original_size 0, no relative_path occurs twice, and the
\* entries are those of the tree: the sequence is fixed by the tree alone.
ManifestOrder ==
    IsFile(enc0, MetadataPath) =>
        LET files == WrittenEntries
            rel(i) == ParsePath(files[i].relative_path)
        IN  /\ {rel(i) : i \in 1..Len(files)} = DOMAIN src \ {<<>>}
            /\ \A i \in 1..Len(files) :
                 /\ files[i].relative_path = PathStr(rel(i))
                 /\ files[i].is_directory = (src[rel(i)].kind = "dir")
                 /\ files[i].is_directory => files[i].original_size = 0
                 /\ ~files[i].is_directory =>
                       files[i].original_size = ByteLen(src[rel(i)].data)
                 /\ (files[i].is_directory /\ Len(rel(i)) > 1) =>
                       \E j \in 1..(i - 1) : rel(j) = Parent(rel(i))
            /\ \A i \in 1..Len(files), j \in 1..Len(files) :
                 i < j =>
                   /\ files[i].relative_path # files[j].relative_path
                   /\ files[i].is_directory \/ ~files[j].is_directory
                   /\ files[i].is_directory = files[j].is_directory
                        => PathLess(rel(i), rel(j))

ManifestOrderWitness ==
    /\ phase = "encrypted"
    /\ Len(WrittenEntries) = 5
    /\ WrittenEntries[1].relative_path = NameA
    /\ WrittenEntries[2].relative_path = NameAEnc
    /\ WrittenEntries[3].relative_path = NameAEnc \o <<47>> \o NameB
    /\ WrittenEntries[3].is_directory
    /\ WrittenEntries[4].relative_path = SALT_FILENAME
    /\ WrittenEntries[5].relative_path = NameA \o <<47>> \o NameB
    /\ ~WrittenEntries[4].is_directory

\* position of a path in the write log, 0 when it was not written
WrittenAt(p) ==
    IF \E i \in 1..Len(writes) : writes[i] = p
    THEN CHOOSE i \in 1..Len(writes) : writes[i] = p
    ELSE 0

\* C17: in one encrypt_folder run every ciphertext file is written before
\* the manifest and the manifest before .salt; when an entry fails neither
\* the manifest nor .salt is written, when the manifest fails .salt is not
\* written; so the output directory contains .salt only after a run that
\* completed.
WriteOrder ==
    phase \in {"encrypted", "failed"} =>
        /\ WrittenAt(MetadataPath) # 0 =>
              \A p \in FilesOf(src) :
                  /\ WrittenAt(EncryptedPath(p)) # 0
                  /\ WrittenAt(EncryptedPath(p)) < WrittenAt(MetadataPath)
        /\ WrittenAt(SaltPath) # 0 =>
              /\ WrittenAt(MetadataPath) # 0
              /\ WrittenAt(SaltPath) = Len(writes)
        /\ result # NoErr => WrittenAt(SaltPath) = 0
        /\ Exists(enc, SaltPath) => result = NoErr

SaltReadFirst ==
    phase = "decrypted" =>
        /\ ~Exists(enc, SaltPath) =>
              (result = Err("DecryptionError", "salt_not_found") /\ out = NoFs)
        /\ (IsFile(enc, SaltPath) /\ Len(enc[SaltPath].data) # 32) =>
              (result = Err("DecryptionError", "salt_invalid") /\ out = NoFs)

SaltReadFirstWitness ==
    /\ phase = "decrypted"
    /\ tamper.kind = "resize"
    /\ Len(enc[SaltPath].data) = 31
    /\ guess = ""
    /\ FilesOf(src) # {}
    /\ result = Err("DecryptionError", "salt_invalid")
    /\ out = NoFs

\* C20: derive_key returns a key exactly for a non-empty password and a
\* 32-byte salt, and the same key when called again; an empty password is
\* rejected with the weak-password kind of error (InvalidPasswordError), a
\* salt of another length with a different kind.
DeriveKeyErrorKinds ==
    kdf.pc \in {"derived", "again"} =>
        /\ kdf.err = NoErr <=> (kdf.password # "" /\ Len(kdf.salt) = 32)
        /\ kdf.err = NoErr => kdf.key = DeriveKeyPbkdf2(kdf.password, kdf.salt)
        /\ kdf.pc = "again" => (kdf.err2 = kdf.err /\ kdf.key2 = kdf.key)
        /\ kdf.password = "" => kdf.err.cls = "InvalidPasswordError"
        /\ (kdf.password # "" /\ Len(kdf.salt) # 32) =>
              kdf.err.cls \notin {"none", "InvalidPasswordError"}


\* number of the four character classes (upper-case, lower-case, digit,
\* non-alphanumeric) that occur in a password
ClassesIn(pw) ==
    Cardinality({k \in {"upper", "lower", "digit", "special"} :
        \E i \in 1..Len(pw) :
            CASE k = "upper" -> CharIsUpper(pw[i])
              [] k = "lower" -> CharIsLower(pw[i])
              [] k = "digit" -> CharIsDigit(pw[i])
              [] k = "special" -> ~CharIsAlnum(pw[i])})

\* C21: a password is acceptable iff it has at least 8 characters; it is
\* classified strong iff it has at least 12 characters and at least 3 of
\* the 4 character classes; a password of fewer than 8 characters gets the
\* lowest classification whatever its classes, and one of fewer than 12 is
\* never classified moderate or strong.
StrengthTiers ==
    kdf.pc = "scored" =>
        /\ kdf.is_valid <=> Len(kdf.password) >= 8
        /\ kdf.is_valid = PasswordAcceptable(kdf.password)
        /\ kdf.message = "strong" <=>
              (Len(kdf.password) >= 12 /\ ClassesIn(kdf.password) >= 3)
        /\ Len(kdf.password) < 8 <=> kdf.message = "at least 8 characters"
        /\ Len(kdf.password) < 12 => kdf.message \notin {"moderate", "strong"}

StrengthTiersWitness ==
    /\ kdf.pc = "scored"
    /\ Len(kdf.password) = 12
    /\ ClassesIn(kdf.password) = 3
    /\ \E i \in 1..12 : kdf.password[i] = 33
    /\ \E i \in 1..12 : kdf.password[i] = CaselessLetter
    /\ kdf.is_valid
    /\ kdf.message = "strong"

\* index in the written manifest of the file entry whose ciphertext file is p
EntryOfCiphertext(p) ==
    CHOOSE i \in 1..Len(WrittenEntries) :
        /\ ~WrittenEntries[i].is_directory
        /\ EncryptedPath(ParsePath(WrittenEntries[i].relative_path)) = p

\* C22: when the ciphertext file of a manifest file entry is gone from the
\* encrypted directory (removed, or renamed to a name the manifest does not
\* know), decrypt_folder fails with the encrypted-file-not-found error; the
\* output holds the root and exactly the entries before that one, restored,
\* so neither that entry's file nor anything of a later entry exists.
MissingCiphertextStops ==
    (phase = "decrypted" /\ tamper.kind \in {"remove", "rename"}
        /\ tamper.path \in CtPaths(enc0) /\ ~Exists(enc, tamper.path)
        /\ guess = password) =>
      LET k == EntryOfCiphertext(tamper.path)
          rel(j) == ParsePath(WrittenEntries[j].relative_path)
      IN  /\ result = Err("FileProcessingError", "not_found")
          /\ DOMAIN out = {<<>>} \cup {rel(j) : j \in 1..(k - 1)}
          /\ \A j \in 1..(k - 1) :
                /\ out[rel(j)].kind = src[rel(j)].kind
                /\ out[rel(j)].data = src[rel(j)].data

MissingCiphertextStopsWitness ==
    /\ phase = "decrypted"
    /\ tamper.kind = "remove"
    /\ tamper.path = EncryptedPath(<<NameAEnc>>)
    /\ guess = password
    /\ FilesOf(src) = {<<NameA>>, <<NameAEnc>>}
    /\ ByteLen(src[<<NameA>>].data) > CHUNK_SIZE
    /\ DOMAIN out = {<<>>, <<NameA>>}
    /\ out[<<NameA>>].data = src[<<NameA>>].data
    /\ result = Err("FileProcessingError", "not_found")

\* p is a proper ancestor of q
Above(p, q) == Len(p) < Len(q) /\ Prefix(q, Len(p)) = p

\* C23: what encrypt_folder leaves in the output is the root, the ciphertext
\* files, the directories that hold them, the manifest and the salt file: a
\* directory exists there only if the source directory of that path has a
\* regular file below it, and nothing else stands for a directory without
\* files.  A decrypt_folder of it recreates every directory of the source,
\* the empty ones too.  For the empty source tree the output holds exactly
\* .salt and .folder_crypto_metadata.enc, and decrypting gives an existing,
\* empty directory.
EmptyDirsInManifestOnly ==
    /\ phase \in {"encrypted", "decrypted"} =>
          /\ \A p \in DOMAIN enc0 \ {<<>>} :
                IF enc0[p].kind = "dir"
                THEN IsDir(src, p) /\ \E q \in FilesOf(src) : Above(p, q)
                ELSE \/ p \in {MetadataPath, SaltPath}
                     \/ \E q \in FilesOf(src) : p = EncryptedPath(q)
          /\ DOMAIN src = {<<>>} =>
                (IsDir(enc0, <<>>) /\ DOMAIN enc0 = {<<>>, SaltPath, MetadataPath}
                   /\ IsFile(enc0, SaltPath) /\ IsFile(enc0, MetadataPath))
    /\ (phase = "decrypted" /\ guess = password) =>
          /\ result = NoErr
          /\ \A p \in DOMAIN src : IsDir(src, p) => IsDir(out, p)
          /\ DOMAIN src = {<<>>} => DOMAIN out = {<<>>}

EmptyDirsInManifestOnlyWitness ==
    /\ phase = "decrypted"
    /\ guess = password
    /\ result = NoErr
    /\ DOMAIN src = {<<>>, <<NameA>>, <<NameAEnc>>, <<NameAEnc, NameB>>}
    /\ IsDir(src, <<NameA>>)
    /\ IsFile(src, <<NameAEnc, NameB>>)
    /\ DOMAIN enc0 = {<<>>, <<NameAEnc>>, EncryptedPath(<<NameAEnc, NameB>>),
                      MetadataPath, SaltPath}
    /\ IsDir(out, <<NameA>>)
    /\ IsDir(out, <<NameAEnc>>)

\* the outcome of the same decrypt_folder call where os.chmod never fails
UndeniedRun == DecryptService(enc, NoFs, guess, {})

\* C24: a failure of os.chmod on a directory or a file during decrypt_folder
\* changes neither the outcome nor what is written: the call ends as it
\* ends when no chmod fails (without error when nothing else fails), with
\* the same directories, files and bytes, every later entry included; only
\* modes differ, a node whose chmod failed keeping the mode it was created
\* with.  An entry without recorded permissions keeps that mode as well.
ChmodFailureNotFatal ==
    phase = "decrypted" =>
        /\ result = UndeniedRun.err
        /\ DOMAIN out = DOMAIN UndeniedRun.fs
        /\ \A p \in DOMAIN out :
              /\ out[p].kind = UndeniedRun.fs[p].kind
              /\ out[p].data = UndeniedRun.fs[p].data
              /\ out[p].mode \in {UndeniedRun.fs[p].mode, "umask"}
        /\ (tamper = NoTamper /\ guess = password) =>
              (result = NoErr /\ SameTree(out, src))
        /\ (tamper.kind = "craft" /\ tamper.field = "valid" /\ guess = password) =>
              /\ result = NoErr
              /\ IsDir(out, <<GoodCraftPath>>)
              /\ out[<<GoodCraftPath>>].mode = "umask"

ChmodFailureNotFatalWitness ==
    /\ phase = "decrypted"
    /\ tamper = NoTamper
    /\ guess = password
    /\ result = NoErr
    /\ DOMAIN src = {<<>>, <<NameAEnc>>, <<NameAEnc, NameB>>}
    /\ ByteLen(src[<<NameAEnc, NameB>>].data) > CHUNK_SIZE
    /\ out[<<NameAEnc>>].mode = "umask"
    /\ out[<<NameAEnc>>].mode # src[<<NameAEnc>>].mode
    /\ out[<<NameAEnc, NameB>>].mode = src[<<NameAEnc, NameB>>].mode
    /\ out[<<NameAEnc, NameB>>].data = src[<<NameAEnc, NameB>>].data

\* the file entry j of the written manifest cannot be restored from the
\* encrypted directory as it is now
EntryFails(j) ==
    LET rel == ParsePath(WrittenEntries[j].relative_path)
        p == EncryptedPath(rel)
    IN  /\ ~WrittenEntries[j].is_directory
        /\ \/ ~IsFile(enc, p)
           \/ DecryptFile(enc[p].data, KeyOfRun, FileAd(rel)).err # NoErr
           \/ ByteLen(DecryptFile(enc[p].data, KeyOfRun, FileAd(rel)).out)
                 # WrittenEntries[j].original_size

\* the manifest of the encrypted directory is the written one and opens
\* under the password given to decrypt_folder
ManifestLoads ==
    /\ guess = password
    /\ IsFile(enc, SaltPath)
    /\ enc[SaltPath] = enc0[SaltPath]
    /\ IsFile(enc, MetadataPath)
    /\ enc[MetadataPath] = enc0[MetadataPath]

\* C25: the progress observer is called once per entry, in processing
\* order, before the entry changes the output: call k carries the path of
\* entry k, the count k and the number of entries N, and nothing of entry k
\* or of a later entry exists then.  A call that returns without error has
\* made N calls; one that fails at entry k has made k calls; one that fails
\* before the first entry has made none.
ObserverProtocol ==
    /\ phase \in {"encrypted", "failed"} =>
          LET items == CollectItems(src)
              unwritten == {j \in 1..Len(items) :
                              /\ src[items[j]].kind = "file"
                              /\ WrittenAt(EncryptedPath(items[j])) = 0}
              in_loop == result.why = "mkdir" \/ result = Err("FileProcessingError", "io")
          IN  /\ \A k \in 1..Len(calls) :
                    /\ k <= Len(items)
                    /\ calls[k].relative_path = PathStr(items[k])
                    /\ calls[k].current = k
                    /\ calls[k].total = Len(items)
                    /\ \A j \in k..Len(items) :
                          src[items[j]].kind = "file"
                              => EncryptedPath(items[j]) \notin calls[k].seen
              /\ phase = "encrypted" => Len(calls) = Len(items)
              /\ in_loop =>
                    (unwritten # {}
                       /\ Len(calls) = CHOOSE k \in unwritten : \A j \in unwritten : k <= j)
              /\ result.cls = "InvalidPasswordError" => calls = <<>>
              /\ (phase = "failed" /\ ~in_loop /\ result.cls # "InvalidPasswordError")
                    => Len(calls) = Len(items)
    /\ phase = "decrypted" =>
          IF ~ManifestLoads THEN calls = <<>> /\ result # NoErr
          ELSE LET N == Len(WrittenEntries)
                   failing == {j \in 1..N : EntryFails(j)}
               IN  /\ \A k \in 1..Len(calls) :
                         /\ k <= N
                         /\ calls[k].relative_path = WrittenEntries[k].relative_path
                         /\ calls[k].current = k
                         /\ calls[k].total = N
                         /\ \A j \in k..N :
                               ParsePath(WrittenEntries[j].relative_path)
                                   \notin calls[k].seen
                   /\ IF failing = {} THEN result = NoErr /\ Len(calls) = N
                      ELSE /\ result # NoErr
                           /\ Len(calls) = CHOOSE k \in failing : \A j \in failing : k <= j

ObserverProtocolWitness ==
    /\ phase = "decrypted"
    /\ FilesOf(src) = {<<NameA>>, <<NameAEnc>>}
    /\ guess = password
    /\ tamper.kind = "flip"
    /\ tamper.field = "chunk"
    /\ tamper.path = EncryptedPath(<<NameA>>)
    /\ result.why = "auth"
    /\ calls = <<[relative_path |-> NameA, current |-> 1, total |-> 2,
                  seen |-> {<<>>}]>>

\* int.from_bytes(b, "little")
RECURSIVE FromLe(_)
FromLe(b) == IF b = <<>> THEN 0 ELSE Head(b) + 256 * FromLe(Tail(b))

\* C26: _derive_chunk_nonce(b, i) returns 12 bytes; the first 4 are those
\* of b; byte j of the last 8 is byte j of b's last 8 XOR byte j of the
\* little-endian u64 of i, that is, the last 8 bytes read as a little-endian
\* integer are b's XOR i; index 0 gives b; for a fixed b no other index
\* gives the same nonce.
NonceDerivation ==
    chunk_nonce.pc = "derived" =>
        LET b == chunk_nonce.base
            i == chunk_nonce.index
            n == chunk_nonce.out
            IndexByte(j) == IF j <= 4 THEN (i \div Pow2(8 * (j - 1))) % 256 ELSE 0
            small == b[8] < 128 /\ \A j \in 9..12 : b[j] = 0
        IN  /\ Len(n) = 12
            /\ SubSeq(n, 1, 4) = SubSeq(b, 1, 4)
            /\ \A j \in 1..8 : n[4 + j] = BitXor(b[4 + j], IndexByte(j))
            /\ small => FromLe(SubSeq(n, 5, 12)) = BitXor(FromLe(SubSeq(b, 5, 12)), i)
            /\ i = 0 => n = b
            /\ \A k \in NonceIndices : k # i => DeriveChunkNonce(b, k) # n

NonceDerivationWitness ==
    /\ chunk_nonce.pc = "derived"
    /\ chunk_nonce.index = 257
    /\ chunk_nonce.base = [j \in 1..12 |-> j]
    /\ chunk_nonce.out = <<1, 2, 3, 4, 4, 7, 7, 8, 9, 10, 11, 12>>

\* the paths of E the last run wrote or needs: its ciphertext files, their
\* directories, the manifest and the salt file
ReferencedPaths ==
    LET cts == {EncryptedPath(p) : p \in FilesOf(src)}
    IN  {q \in DOMAIN enc :
            \/ q \in {<<>>, MetadataPath, SaltPath}
            \/ \E c \in cts : q = c \/ Above(q, c)}

\* ciphertext files of earlier runs that the last manifest does not reference
Leftovers == {q \in CtPaths(enc) : q \notin ReferencedPaths}

\* C27: after successful encrypt_folder runs into the same directory E,
\* decrypt_folder(E, D, P_last) into a fresh D succeeds and yields exactly
\* the last source tree; nothing left over from earlier runs is restored,
\* and the call ends the same way when everything left over is removed
\* from E first (what is left over is not read).
LeftoversIgnored ==
    (phase = "decrypted" /\ tamper = NoTamper /\ guess = password) =>
        /\ result = NoErr
        /\ SameTree(out, src)
        /\ \E r \in {DecryptService([q \in ReferencedPaths |-> enc[q]], NoFs, guess, {})} :
              r.err = result /\ r.fs = out /\ r.calls = calls

LeftoversIgnoredWitness ==
    /\ phase = "decrypted"
    /\ guess = password
    /\ guess # "CorrectHorseBattery"
    /\ result = NoErr
    /\ <<NameAEnc>> \in Leftovers
    /\ IsFile(out, <<NameAEnc>>)
    /\ SameTree(out, src)

\* the plaintexts of the first k records, written one after the other
RECURSIVE SinkOf(_, _)
SinkOf(recs, k) ==
    IF k = 0 THEN <<>> ELSE WriteBytes(SinkOf(recs, k - 1), recs[k].blob.pt)

\* number of chunks encrypt_file makes of size bytes
ChunkCount(size) == (size + CHUNK_SIZE - 1) \div CHUNK_SIZE

\* the first k chunks of the size bytes of the file at path
FirstChunks(path, size, k) == WholeFile(path, Min(k * CHUNK_SIZE, size))

\* C28: at every point of decrypt_file, also after it raised, the output
\* sink holds the plaintexts of the first k records for the k chunks
\* counted so far, each of which opened under the key, the chunk nonce and
\* associated data || index before it was written; unless a holder of the
\* key appended a chunk, that is the first k chunks of the plaintext given
\* to encrypt_file under that key and associated data.  When the call is
\* over, the sink is what decrypt_file leaves, and after decrypt_folder
\* every file of the output, including one whose decryption failed, holds
\* the first k chunks of the source file at its path.
SinkIsVerifiedPrefix ==
    /\ epc \in {"opening", "opened"} =>
         /\ \A i \in 1..opened.chunks :
                /\ ect.recs[i].len = BlobLen(ect.recs[i].blob)
                /\ AeadOpens(ect.recs[i].blob, opened.key,
                             DeriveChunkNonce(ect.nonce, i - 1),
                             ChunkAd(opened.ad, i - 1))
         /\ opened.out = SinkOf(ect.recs, opened.chunks)
         /\ opened.chunks > 0 => (opened.key = EngineKey /\ opened.ad = ad0)
         /\ alter.kind # "append" =>
                /\ opened.chunks <= ChunkCount(plain)
                /\ opened.out = FirstChunks(<<NameA>>, plain, opened.chunks)
         /\ alter.kind = "append" =>
                \E k \in {opened.chunks, opened.chunks - 1} :
                    /\ k >= 0
                    /\ k <= ChunkCount(plain)
                    /\ SinkOf(ect.recs, k) = FirstChunks(<<NameA>>, plain, k)
                    /\ k < opened.chunks => k = ChunkCount(plain)
         /\ epc = "opened" =>
                \E r \in {DecryptFile(ect, opened.key, opened.ad)} :
                    r.err = opened.err /\ r.out = opened.out /\ r.chunks = opened.chunks
    /\ phase = "decrypted" =>
         \A p \in FilesOf(out) :
            /\ p \in FilesOf(src)
            /\ \E k \in 0..ChunkCount(ByteLen(src[p].data)) :
                   out[p].data = FirstChunks(p, ByteLen(src[p].data), k)

\* decrypt_file has raised at the second of three chunks, cut short: the
\* first chunk is in the sink
SinkIsVerifiedPrefixWitness ==
    /\ epc = "opened"
    /\ plain = 2 * CHUNK_SIZE + 1
    /\ alter.kind = "cut_chunk"
    /\ opened.err = Err("DecryptionError", "chunk_data")
    /\ opened.chunks = 1
    /\ opened.out = WholeFile(<<NameA>>, CHUNK_SIZE)

\* the paths encrypt_folder writes for the tree: a ciphertext file per
\* source file, the manifest and the salt file
OutputFiles(tree) ==
    {EncryptedPath(p) : p \in FilesOf(tree)} \cup {MetadataPath, SaltPath}

\* C29: for every source tree the ciphertext path of a file differs from
\* that of every other file, from every directory the output needs to hold
\* another ciphertext, and from the names of the manifest and the salt
\* file; so encrypt_folder with an accepted password never fails on a name
\* and writes no path twice.
OutputPathsDisjoint ==
    phase \in {"encrypted", "failed"} =>
        /\ \A p, q \in FilesOf(src) : p # q => EncryptedPath(p) # EncryptedPath(q)
        /\ \A p \in FilesOf(src) : EncryptedPath(p) \notin {MetadataPath, SaltPath}
        /\ \A f, g \in OutputFiles(src) : ~Above(f, g)
        /\ phase = "failed" => result.cls = "InvalidPasswordError"
        /\ \A i, j \in 1..Len(writes) : i # j => writes[i] # writes[j]

\* Argon2id was requested when the object was constructed and argon2 could
\* be imported then
RequestedAndImportable(key_derivation_object) ==
    key_derivation_object \in {KeyDerivationInit(TRUE, TRUE)}

\* C30: derive_key uses Argon2id iff Argon2id was requested at construction
\* and argon2 was importable then; otherwise, also when it was requested
\* but could not be imported, it derives with PBKDF2 and the run is the one
\* of a service that never asked for Argon2id (nothing raised, nothing
\* reported).  decrypt_folder with the right password succeeds and gives
\* the source tree when both sides ended up with the same algorithm, and
\* otherwise fails exactly as with a wrong password.
KdfSelection ==
    /\ phase \in {"encrypted", "decrypted"} =>
         /\ seals # <<>>
         /\ \A i \in 1..Len(seals) :
                seals[i].key =
                    IF RequestedAndImportable(key_derivation.enc)
                    THEN DeriveKeyArgon2(password, enc0[SaltPath].data)
                    ELSE DeriveKeyPbkdf2(password, enc0[SaltPath].data)
    /\ (phase \in {"encrypted", "failed"}
            /\ ~RequestedAndImportable(key_derivation.enc)) =>
         \E salt \in Salts, nonce \in Nonces :
            \E r \in {EncryptService(src, NoFs, password, strength, salt,
                                     [p \in FilesOf(src) |-> nonce], nonce)} :
                r.fs = enc /\ r.err = result /\ r.calls = calls
    /\ (phase = "decrypted" /\ guess = password) =>
         IF RequestedAndImportable(key_derivation.enc)
                = RequestedAndImportable(key_derivation.dec)
         THEN result = NoErr /\ SameTree(out, src)
         ELSE /\ result # NoErr
              /\ \E r \in {DecryptServiceOf(key_derivation.dec, enc, NoFs,
                                              "correcthorsebattery", {})} :
                    r.err = result /\ r.fs = out /\ r.calls = calls

KdfSelectionWitness ==
    /\ phase = "decrypted"
    /\ guess = password
    /\ key_derivation.enc = KeyDerivationInit(TRUE, TRUE)
    /\ key_derivation.dec = KeyDerivationInit(TRUE, FALSE)
    /\ IsFile(src, <<NameA>>)
    /\ result = Err("DecryptionError", "auth")
    /\ ~Exists(out, <<NameA>>)

====
